---------------------------- MODULE Spec2Model ----------------------------
(***************************************************************************)
(* A model of the floaty SWIM engine: lib/server.js (Server) and           *)
(* lib/peer.js (Peer) in their latest revision, src/unnamed/part_007       *)
(* lines 1-342 and src/unnamed/part_008 lines 141-294.                     *)
(*                                                                         *)
(* One engine is modelled.  The other nodes are the environment: they send *)
(* arbitrary datagrams.  Node.js runs one callback at a time, so every     *)
(* action below is one callback run to completion: the synchronous part of *)
(* a datagram handler, the resumption of an async function after its send  *)
(* completed, the expiry of a timer, or a call of the public API.          *)
(***************************************************************************)
EXTENDS Integers, Sequences, FiniteSets, TLC

VARIABLES
    peers,      \* Server.peers: the ordered array of Peer objects
    sequence,   \* Server.sequence
    updates,    \* Server.updates: the dissemination buffer
    timers,     \* pending setTimeout timers and one-shot listeners, oldest first
    conts,      \* async functions suspended at `await send`
    iter,       \* Server.iter: array iterator over a snapshot of peersOnline
    hung,       \* the event loop is stuck in a loop that never returns
    sent,       \* datagrams handed to the socket by the last callback
    events,     \* events emitted by the last callback
    last,       \* the last callback: its kind and its input
    periods,    \* protocol periods begun since the engine last refuted a suspicion
    stopped,    \* stop() has been called
    down        \* the ids of the nodes that are stopped: they send nothing

vars ==
    <<peers, sequence, updates, timers, conts, iter, hung, sent, events, last,
      periods, stopped, down>>

-----------------------------------------------------------------------------
(* Bounds of the model.                                                    *)

MaxPeers == 2       \* peer ids are 1..MaxPeers
MaxSeq == 1         \* sequence numbers carried by inbound updates are 0..MaxSeq
MaxUpdates == 3     \* buffer entries followed while updates are gossiped
MaxPending == 2     \* buffer entries followed while datagrams are answered
MaxFlood == 7       \* buffer entries followed while the buffer is flooded
MaxTimers == 2      \* pending timers and listeners
MaxConts == 1       \* suspended async functions
MaxPeriods == 2     \* protocol periods counted after a refutation
MaxProbeTimers == 3 \* pending timers and listeners while peers are probed
MaxGossip == 1      \* buffer entries followed while peers are probed
MaxCount == 2       \* count values carried by inbound updates are 0..MaxCount
MaxDetectTimers == 5 \* pending timers while a stopped node is detected

(* Program constants.                                                      *)

OwnId == 0          \* Server.id
MaxPiggyback == 6   \* Math.min(6, this.updates.length)
NeverFaulty == 0 - 1 \* Peer.lastFaulty = -1

PeerIds == 1..MaxPeers
Ids == 0..MaxPeers
Seqs == 0..MaxSeq
(* Endpoints (host and port), one per way a peer can become known.          *)
OwnAddr == "own"        \* the engine's own address and port
CfgAddr == "cfg"        \* of a peer passed to init() or addPeer()
SrcAddr == "src"        \* rinfo of an inbound datagram
TgtAddr == "tgt"        \* target_address and target_port of a ping-req
UpdAddr == "upd"        \* address and port carried by an inbound update
Statuses == {"alive", "suspect", "faulty"}

Min(a, b) == IF a < b THEN a ELSE b

Reverse(s) == [i \in 1..Len(s) |-> s[Len(s) + 1 - i]]

Range(s) == {s[i] : i \in 1..Len(s)}

RemoveAt(s, k) == [i \in 1..(Len(s) - 1) |-> IF i < k THEN s[i] ELSE s[i + 1]]


-----------------------------------------------------------------------------
(* Records.                                                                *)

(* new Peer(info, server): sequence = info.sequence || 0,                  *)
(* status = info.status || 'alive', lastFaulty = -1.                       *)
NewPeer(info) ==
    [id |-> info.id, status |-> info.status, sequence |-> info.sequence,
     lastFaulty |-> NeverFaulty, address |-> info.address]

(* An info object that takes the configured endpoint whatever endpoint the *)
(* caller passes.                                                          *)
InfoConfigured(id, address) ==
    [id |-> id, address |-> "cfg", sequence |-> 0, status |-> "alive"]

(* An info object without sequence and status, as init(), handleMessage    *)
(* and addPeer callers pass it: the constructor's defaults apply.          *)
Info(id, address) ==
    [id |-> id, address |-> address, sequence |-> 0, status |-> "alive"]

(* The engine as an info object: addUpdate(this, 'alive').                 *)
Self(S) == [id |-> OwnId, address |-> OwnAddr, sequence |-> S.sequence]

(* Entries of `timers`.  A timer and the one-shot listener registered with *)
(* it are one entry; all timers of the engine have the same delay (2e3),   *)
(* so they expire in the order they were armed.                            *)
TargetT(p) == [kind |-> "target", peer |-> p, via |-> p, on |-> TRUE, name |-> ""]
IndirectT(v, t) == [kind |-> "indirect", peer |-> t, via |-> v, on |-> TRUE, name |-> ""]
SuspectT(p) == [kind |-> "suspect", peer |-> p, via |-> p, on |-> TRUE, name |-> ""]
RelayT(s, t) == [kind |-> "relay", peer |-> t, via |-> s, on |-> TRUE, name |-> ""]
StartT == [kind |-> "start", peer |-> OwnId, via |-> OwnId, on |-> TRUE, name |-> ""]
EventReqL(s, src, n) == [kind |-> "eventReq", peer |-> src, via |-> s, on |-> TRUE, name |-> n]

Cont(k, s, t, us) == [kind |-> k, sender |-> s, target |-> t, updates |-> us]

Datagram(cmd, to, t, n, us) ==
    [command |-> cmd, to |-> to, target |-> t, name |-> n, updates |-> us]

Ev(src, n) == [src |-> src, name |-> n]

(* The engine's state as one value, threaded through the calls a callback  *)
(* makes.                                                                  *)
Cur ==
    [peers |-> peers, sequence |-> sequence, updates |-> updates,
     timers |-> timers, conts |-> conts, iter |-> iter, hung |-> hung,
     sent |-> <<>>, events |-> <<>>]

(* A callback's effect.  `periods` is a history variable: a refutation     *)
(* (the own sequence moved) resets it, a call of start() counts one.       *)
(* `stopped` is a history variable too: it records that the application    *)
(* called stop().  `down` belongs to the environment: the nodes that were  *)
(* stopped and not started again.                                          *)
Commit(S, l) ==
    /\ stopped' = (stopped \/ l.op = "stop")
    /\ down' = CASE l.op = "node-stop" -> down \cup {l.id}
                 [] l.op = "node-start" -> down \ {l.id}
                 [] OTHER -> down
    /\ periods' = IF S.sequence # sequence THEN 0
                  ELSE IF l.op = "start" THEN Min(periods + 1, MaxPeriods)
                  ELSE periods
    /\ peers' = S.peers
    /\ sequence' = S.sequence
    /\ updates' = S.updates
    /\ timers' = S.timers
    /\ conts' = S.conts
    /\ iter' = S.iter
    /\ hung' = S.hung
    /\ sent' = S.sent
    /\ events' = S.events
    /\ last' = l

Log(S, src, n) == [S EXCEPT !.events = Append(@, Ev(src, n))]

-----------------------------------------------------------------------------
(* Server: peers, limit, the update buffer.                                *)

(* getPeer(id): this.peers.find(peer => peer.id === id); 0 for undefined.  *)
getPeer(ps, id) ==
    IF \E i \in 1..Len(ps) : ps[i].id = id
    THEN CHOOSE i \in 1..Len(ps) :
            ps[i].id = id /\ \A j \in 1..(i - 1) : ps[j].id # id
    ELSE 0

(* get peersOnline: the peers whose status is not 'faulty', in order.      *)
peersOnline(ps) == SelectSeq(ps, LAMBDA p : p.status # "faulty")

(* Math.round(Math.log(n + 1) * 3) for n = 0..11, tabulated: the natural   *)
(* logarithm is not expressible over the integers.                         *)
LimitTable == <<0, 2, 3, 4, 5, 5, 6, 6, 7, 7, 7, 7>>

limit(ps) == LimitTable[Len(ps) + 1]

(* addPeer(info) without its check of the id.                              *)
addPeerUnguarded(S, info) ==
    [S EXCEPT !.peers = Append(@, NewPeer(info))]

(* addPeer(info): nothing for the own id or a known id; else push.         *)
addPeer(S, info) ==
    IF info.id = OwnId \/ getPeer(S.peers, info.id) # 0
    THEN S
    ELSE [S EXCEPT !.peers = Append(@, NewPeer(info))]

(* addUpdate({address, id, port, sequence}, status)                        *)
addUpdate(S, rec, status) ==
    [S EXCEPT !.updates =
        Append(@, [id |-> rec.id, status |-> status, sequence |-> rec.sequence,
                   count |-> 0, address |-> rec.address])]

(* .sort((a, b) => a.count > b.count ? 1 : -1): ascending by count.  The   *)
(* comparator is not consistent for equal counts, so the order of ties is  *)
(* implementation-defined: `tie` is the order the build produces, ties in  *)
(* insertion order ("fifo") or in reverse insertion order ("lifo").        *)
TieOrders == {"fifo", "lifo"}

RECURSIVE sortByCount(_, _, _)
sortByCount(buf, c, tie) ==
    IF \A i \in 1..Len(buf) : buf[i].count < c THEN <<>>
    ELSE LET grp == SelectSeq(buf, LAMBDA u : u.count = c)
         IN (IF tie = "fifo" THEN grp ELSE Reverse(grp))
                \o sortByCount(buf, c + 1, tie)

(* getUpdates() without the sort: the entries are counted and returned in  *)
(* the order the buffer holds them.                                        *)
getUpdatesUnsorted(buf, lim, tie) ==
    LET live == SelectSeq(buf, LAMBDA u : u.count < lim)
        numUpdates == Min(MaxPiggyback, Len(live))
    IN [i \in 1..Len(live) |->
            IF i <= numUpdates
            THEN [live[i] EXCEPT !.count = @ + 1]
            ELSE live[i]]

(* getUpdates() without the filter: no entry is ever dropped.              *)
getUpdatesUnfiltered(buf, lim, tie) ==
    LET sorted == sortByCount(buf, 0, tie)
        numUpdates == Min(MaxPiggyback, Len(sorted))
    IN [i \in 1..Len(sorted) |->
            IF i <= numUpdates
            THEN [sorted[i] EXCEPT !.count = @ + 1]
            ELSE sorted[i]]

(* getUpdates(): the buffer after the call ...                             *)
getUpdates(buf, lim, tie) ==
    LET live == SelectSeq(buf, LAMBDA u : u.count < lim)
        sorted == sortByCount(live, 0, tie)
        numUpdates == Min(MaxPiggyback, Len(sorted))
    IN [i \in 1..Len(sorted) |->
            IF i <= numUpdates
            THEN [sorted[i] EXCEPT !.count = @ + 1]
            ELSE sorted[i]]

(* The whole buffer returned in place of the slice.                        *)
takenAll(buf) == buf

(* ... and the slice it returns.                                           *)
taken(buf) == SubSeq(buf, 1, Min(MaxPiggyback, Len(buf)))

(* Peer.send(msg): msg.updates = this.server.getUpdates(); socket.send.    *)
send(S, to, cmd, t, n, tie) ==
    LET buf == getUpdates(S.updates, limit(S.peers), tie)
    IN [S EXCEPT !.updates = buf,
                 !.sent = Append(@, Datagram(cmd, to, t, n, taken(buf)))]

-----------------------------------------------------------------------------
(* Events and the listeners registered at run time.                        *)

(* The one-shot listeners of event `ev`, run in the order they were        *)
(* registered.  S.timers holds the entries already passed, `ls` the rest.  *)
(*   ping():    this.once('ack', () => clearTimeout(timeout))              *)
(*   pingReq(): this.once('ack', ...), target.once('ack', ...)             *)
(*   suspect(): this.once('alive', () => clearTimeout(timeout))            *)
(*   handlePingReq(): target.once('ack', () => sender.ack())               *)
(*   handleEventReq(): this.once(eventName, () => sender.send(event))      *)
RECURSIVE fireListeners(_, _, _, _)
fireListeners(S, ls, ev, tie) ==
    IF ls = <<>> THEN S
    ELSE LET e == Head(ls)
             keep == [S EXCEPT !.timers = Append(@, e)]
             S1 ==
               CASE e.kind = "target" ->
                      IF ev.name = "ack" /\ e.peer = ev.src THEN S ELSE keep
                 [] e.kind = "indirect" ->
                      IF ev.name = "ack" /\ (e.peer = ev.src \/ e.via = ev.src)
                      THEN S ELSE keep
                 [] e.kind = "suspect" ->
                      IF ev.name = "alive" /\ e.peer = ev.src THEN S ELSE keep
                 [] e.kind = "relay" ->
                      IF e.on /\ ev.name = "ack" /\ e.peer = ev.src
                      THEN [send(S, e.via, "ack", e.via, "", tie)
                               EXCEPT !.timers = Append(@, [e EXCEPT !.on = FALSE])]
                      ELSE keep
                 [] e.kind = "eventReq" ->
                      IF e.peer = ev.src /\ e.name = ev.name
                      THEN send(S, e.via, "event", e.peer, e.name, tie)
                      ELSE keep
                 [] OTHER -> keep
         IN fireListeners(S1, Tail(ls), ev, tie)

fire(S, src, n, tie) ==
    fireListeners([S EXCEPT !.timers = <<>>], S.timers, Ev(src, n), tie)

(* Peer.emit(name) on a peer that addPeer gave no listeners: no status     *)
(* event is announced in the buffer.                                       *)
emitPlainUnannounced(S, i, n, tie) ==
    LET p == S.peers[i]
    IN fire(Log(S, p.id, n), p.id, n, tie)

(* Peer.emit(name) for an event that has no listener of the constructor:   *)
(* the addPeer listeners (alive, suspect, faulty -> addUpdate), then the   *)
(* one-shot listeners.                                                     *)
emitPlain(S, i, n, tie) ==
    LET p == S.peers[i]
        S1 == Log(S, p.id, n)
        S2 == IF n \in Statuses THEN addUpdate(S1, p, n) ELSE S1
    IN fire(S2, p.id, n, tie)

(* Peer.update(status): if (this.status !== status) this.emit(this.status = status) *)
update(S, i, status, tie) ==
    IF S.peers[i].status # status
    THEN emitPlain([S EXCEPT !.peers[i].status = status], i, status, tie)
    ELSE S

(* Peer.alive() setting the status without emitting the event.            *)
aliveSilent(S, i, tie) == [S EXCEPT !.peers[i].status = "alive"]

(* Peer.alive()                                                            *)
alive(S, i, tie) == update(S, i, "alive", tie)

(* Peer.suspect() without its check of the status.                         *)
suspectAnyStatus(S, i, tie) ==
    [update(S, i, "suspect", tie)
        EXCEPT !.timers = Append(@, SuspectT(S.peers[i].id))]

(* Peer.suspect(): only an alive peer; the timer is armed after the event. *)
suspect(S, i, tie) ==
    IF S.peers[i].status # "alive" THEN S
    ELSE LET S1 == update(S, i, "suspect", tie)
         IN [S1 EXCEPT !.timers = Append(@, SuspectT(S.peers[i].id))]

(* Peer.faulty() without the comparison with lastFaulty.                   *)
faultyUnguarded(S, i, tie) ==
    update([S EXCEPT !.peers[i].lastFaulty = S.peers[i].sequence],
           i, "faulty", tie)

(* Peer.faulty(): only when this.sequence > this.lastFaulty.               *)
faulty(S, i, tie) ==
    IF S.peers[i].sequence > S.peers[i].lastFaulty
    THEN update([S EXCEPT !.peers[i].lastFaulty = S.peers[i].sequence],
                i, "faulty", tie)
    ELSE S

(* Peer.emit('ack' | 'ping' | 'ping-req' | 'event' | 'event-req'): the     *)
(* constructor's listener () => this.alive() runs first.                   *)
ObsNames == {"ack", "ping", "ping-req", "event", "event-req"}

(* Peer.emit without the constructor's listener: a datagram of a peer does *)
(* not make it alive.                                                      *)
emitObsUnheard(S, i, n, tie) ==
    LET p == S.peers[i].id
    IN fire(Log(S, p, n), p, n, tie)

emitObs(S, i, n, tie) ==
    LET p == S.peers[i].id
    IN fire(alive(Log(S, p, n), i, tie), p, n, tie)

(* Peer.handleUpdate taking any incoming sequence that differs from its    *)
(* own, a smaller one included.                                            *)
PeerHandleUpdateAnySequence(S, i, u, tie) ==
    LET mySequence == S.peers[i].sequence
        S1 == IF u.sequence # mySequence
              THEN emitPlain([S EXCEPT !.peers[i].sequence = u.sequence],
                             i, "sequence", tie)
              ELSE S
    IN CASE u.status = "alive" ->
              IF S1.peers[i].status # "alive" /\ u.sequence > mySequence
              THEN alive(S1, i, tie) ELSE S1
         [] u.status = "suspect" ->
              IF S1.peers[i].status = "alive" /\ u.sequence >= mySequence
              THEN suspect(S1, i, tie) ELSE S1
         [] u.status = "faulty" ->
              IF S1.peers[i].status # "faulty"
              THEN faulty(S1, i, tie) ELSE S1
         [] OTHER -> emitPlain(S1, i, "unrecognized-status", tie)

(* Peer.handleUpdate suspecting a peer of any status: the suspect branch   *)
(* with Peer.suspect() inlined and neither check of the status kept.       *)
PeerHandleUpdateSuspectAnyStatus(S, i, u, tie) ==
    LET mySequence == S.peers[i].sequence
        S1 == IF u.sequence > mySequence
              THEN emitPlain([S EXCEPT !.peers[i].sequence = u.sequence],
                             i, "sequence", tie)
              ELSE S
    IN CASE u.status = "alive" ->
              IF S1.peers[i].status # "alive" /\ u.sequence > mySequence
              THEN alive(S1, i, tie) ELSE S1
         [] u.status = "suspect" ->
              IF u.sequence >= mySequence
              THEN [update(S1, i, "suspect", tie)
                      EXCEPT !.timers = Append(@, SuspectT(S.peers[i].id))]
              ELSE S1
         [] u.status = "faulty" ->
              IF S1.peers[i].status # "faulty"
              THEN faulty(S1, i, tie) ELSE S1
         [] OTHER -> emitPlain(S1, i, "unrecognized-status", tie)

(* Peer.handleUpdate reviving a peer on an alive update that carries the   *)
(* peer's own sequence: >= in place of > in the alive branch.              *)
PeerHandleUpdateAliveSameSequence(S, i, u, tie) ==
    LET mySequence == S.peers[i].sequence
        S1 == IF u.sequence > mySequence
              THEN emitPlain([S EXCEPT !.peers[i].sequence = u.sequence],
                             i, "sequence", tie)
              ELSE S
    IN CASE u.status = "alive" ->
              IF S1.peers[i].status # "alive" /\ u.sequence >= mySequence
              THEN alive(S1, i, tie) ELSE S1
         [] u.status = "suspect" ->
              IF S1.peers[i].status = "alive" /\ u.sequence >= mySequence
              THEN suspect(S1, i, tie) ELSE S1
         [] u.status = "faulty" ->
              IF S1.peers[i].status # "faulty"
              THEN faulty(S1, i, tie) ELSE S1
         [] OTHER -> emitPlain(S1, i, "unrecognized-status", tie)

(* Peer.handleUpdate({ sequence, status })                                 *)
PeerHandleUpdate(S, i, u, tie) ==
    LET mySequence == S.peers[i].sequence
        S1 == IF u.sequence > mySequence
              THEN emitPlain([S EXCEPT !.peers[i].sequence = u.sequence],
                             i, "sequence", tie)
              ELSE S
    IN CASE u.status = "alive" ->
              IF S1.peers[i].status # "alive" /\ u.sequence > mySequence
              THEN alive(S1, i, tie) ELSE S1
         [] u.status = "suspect" ->
              IF S1.peers[i].status = "alive" /\ u.sequence >= mySequence
              THEN suspect(S1, i, tie) ELSE S1
         [] u.status = "faulty" ->
              IF S1.peers[i].status # "faulty"
              THEN faulty(S1, i, tie) ELSE S1
         [] OTHER -> emitPlain(S1, i, "unrecognized-status", tie)

(* Server.handleUpdate announcing itself alive before it bumps its         *)
(* sequence: the refutation carries the sequence that was suspected.       *)
handleUpdateStaleRefutation(S, u, tie) ==
    IF u.id = OwnId
    THEN IF u.status = "suspect" /\ u.sequence = S.sequence
         THEN [addUpdate(S, Self(S), "alive") EXCEPT !.sequence = @ + 1]
         ELSE S
    ELSE IF getPeer(S.peers, u.id) = 0
         THEN IF u.status # "alive" THEN S
              ELSE LET S1 == addPeer(S, u)
                   IN PeerHandleUpdate(S1, getPeer(S1.peers, u.id), u, tie)
         ELSE PeerHandleUpdate(S, getPeer(S.peers, u.id), u, tie)

(* Server.handleUpdate letting the count an update carries decide: an      *)
(* update that was relayed before (count > 0) is dropped.                  *)
handleUpdateCountAware(S, u, tie) ==
    IF u.count > 0 THEN S
    ELSE IF u.id = OwnId
    THEN IF u.status = "suspect" /\ u.sequence = S.sequence
         THEN LET S1 == [S EXCEPT !.sequence = @ + 1]
              IN addUpdate(S1, Self(S1), "alive")
         ELSE S
    ELSE IF getPeer(S.peers, u.id) = 0
         THEN IF u.status # "alive" THEN S
              ELSE LET S1 == addPeer(S, u)
                   IN PeerHandleUpdate(S1, getPeer(S1.peers, u.id), u, tie)
         ELSE PeerHandleUpdate(S, getPeer(S.peers, u.id), u, tie)

(* Server.handleUpdate refuting every suspicion of the engine, whatever    *)
(* sequence it carries.                                                    *)
handleUpdateAnySuspicion(S, u, tie) ==
    IF u.id = OwnId
    THEN IF u.status = "suspect"
         THEN LET S1 == [S EXCEPT !.sequence = @ + 1]
              IN addUpdate(S1, Self(S1), "alive")
         ELSE S
    ELSE IF getPeer(S.peers, u.id) = 0
         THEN IF u.status # "alive" THEN S
              ELSE LET S1 == addPeer(S, u)
                   IN PeerHandleUpdate(S1, getPeer(S1.peers, u.id), u, tie)
         ELSE PeerHandleUpdate(S, getPeer(S.peers, u.id), u, tie)

(* Server.handleUpdate registering the peer of every update about an       *)
(* unknown id, whatever its status.                                        *)
handleUpdateRegistersAny(S, u, tie) ==
    IF u.id = OwnId
    THEN IF u.status = "suspect" /\ u.sequence = S.sequence
         THEN LET S1 == [S EXCEPT !.sequence = @ + 1]
              IN addUpdate(S1, Self(S1), "alive")
         ELSE S
    ELSE IF getPeer(S.peers, u.id) = 0
         THEN LET S1 == addPeer(S, u)
              IN PeerHandleUpdate(S1, getPeer(S1.peers, u.id), u, tie)
         ELSE PeerHandleUpdate(S, getPeer(S.peers, u.id), u, tie)

(* Server.handleUpdate(update)                                             *)
handleUpdate(S, u, tie) ==
    IF u.id = OwnId
    THEN IF u.status = "suspect" /\ u.sequence = S.sequence
         THEN LET S1 == [S EXCEPT !.sequence = @ + 1]
              IN addUpdate(S1, Self(S1), "alive")
         ELSE S
    ELSE IF getPeer(S.peers, u.id) = 0
         THEN IF u.status # "alive" THEN S
              ELSE LET S1 == addPeer(S, u)
                   IN PeerHandleUpdate(S1, getPeer(S1.peers, u.id), u, tie)
         ELSE PeerHandleUpdate(S, getPeer(S.peers, u.id), u, tie)

(* msg.updates.forEach(update => this.handleUpdate(update))                *)
RECURSIVE applyUpdates(_, _, _)
applyUpdates(S, us, tie) ==
    IF us = <<>> THEN S
    ELSE applyUpdates(handleUpdate(S, Head(us), tie), Tail(us), tie)

-----------------------------------------------------------------------------
(* Probes.                                                                 *)

(* Peer.pingReq(target), up to its `await this.send(...)`.                 *)
pingReq(S, via, target, tie) ==
    [send(S, via, "ping-req", target, "", tie)
        EXCEPT !.conts = Append(@, Cont("pingReq", via, target, <<>>))]

(* otherRandomPeer drawing from this.peers, the faulty peers included.     *)
CandidatesAnyStatus(S, p) ==
    {q.id : q \in {r \in Range(S.peers) : r.id # p}}

(* otherRandomPeer(peer): a random online peer other than `peer`; `rnd` is *)
(* the draw.  The loop never ends when there is no such peer.              *)
Candidates(S, p) ==
    {q.id : q \in {r \in Range(peersOnline(S.peers)) : r.id # p}}

otherRandomPeer(S, p, rnd) ==
    IF rnd \in Candidates(S, p) THEN rnd ELSE CHOOSE c \in Candidates(S, p) : TRUE

(* Peer.emit('target'): the addPeer listener                               *)
(*   () => { otherPeer = this.otherRandomPeer(peer); otherPeer.pingReq(peer) } *)
emitTarget(S, i, rnd, tie) ==
    LET p == S.peers[i].id
        S1 == Log(S, p, "target")
    IN IF Candidates(S1, p) = {}
       THEN [S1 EXCEPT !.hung = TRUE]
       ELSE fire(pingReq(S1, otherRandomPeer(S1, p, rnd), p, tie), p, "target", tie)

(* this.timeout = setTimeout(() => this.start(), 2e3): this.timeout now    *)
(* names the new timer and no earlier one.                                 *)
armStart(S) ==
    [S EXCEPT !.timers =
        Append([k \in 1..Len(@) |->
                   IF @[k].kind = "start" THEN [@[k] EXCEPT !.on = FALSE] ELSE @[k]],
               StartT)]

(* Server.emit of a signal of the engine itself.                           *)
emitServer(S, n, tie) == fire(Log(S, OwnId, n), OwnId, n, tie)

(* setIter() iterating over this.peers, the faulty peers included.         *)
setIterWholeTable(S, perm) ==
    LET shuffled == [k \in 1..Len(S.peers) |-> S.peers[perm[k]]]
    IN [S EXCEPT !.peers = shuffled,
                 !.iter = [snap |-> [k \in 1..Len(shuffled) |-> shuffled[k].id],
                           pos |-> 0]]

(* start(): runProtocolPeriod() up to the `await` in peer.ping(true).      *)
(* `perm` is the permutation shufflePeers() draws when setIter() runs.     *)
(* With no online peer setIter() and runProtocolPeriod() call each other   *)
(* until the stack overflows: start() catches the RangeError, emits it and *)
(* arms the next period.                                                   *)
setIter(S, perm) ==
    LET shuffled == [k \in 1..Len(S.peers) |-> S.peers[perm[k]]]
        online == peersOnline(shuffled)
    IN [S EXCEPT !.peers = shuffled,
                 !.iter = [snap |-> [k \in 1..Len(online) |-> online[k].id],
                           pos |-> 0]]

probe(S, tie) ==
    LET p == S.iter.snap[S.iter.pos + 1]
        S1 == [S EXCEPT !.iter.pos = @ + 1]
    IN [send(S1, p, "ping", p, "", tie)
           EXCEPT !.conts = Append(@, Cont("probe", p, p, <<>>))]

(* start() without its finally block: a period that throws is reported    *)
(* and the loop ends.                                                      *)
startAbortsOnError(S, perm, tie) ==
    IF S.iter.pos < Len(S.iter.snap)
    THEN probe(S, tie)
    ELSE LET S1 == setIter(S, perm)
         IN IF S1.iter.snap = <<>>
            THEN emitServer(S1, "error", tie)
            ELSE probe(S1, tie)

start(S, perm, tie) ==
    IF S.iter.pos < Len(S.iter.snap)
    THEN probe(S, tie)
    ELSE LET S1 == setIter(S, perm)
         IN IF S1.iter.snap = <<>>
            THEN armStart(emitServer(S1, "error", tie))
            ELSE probe(S1, tie)

(* stop(): clearTimeout(this.timeout)                                      *)
stop(S) ==
    [S EXCEPT !.timers = SelectSeq(@, LAMBDA e : ~(e.kind = "start" /\ e.on))]

-----------------------------------------------------------------------------
(* The datagram handler.                                                   *)

Msg(cmd, s, t, ta, n, us) ==
    [command |-> cmd, sender_id |-> s, target_id |-> t, target_address |-> ta,
     eventName |-> n, updates |-> us]

(* handleEvent(sender, msg): sender.emit(msg.eventName)                    *)
handleEvent(S, i, n, rnd, tie) ==
    CASE n \in ObsNames -> emitObs(S, i, n, tie)
      [] n = "target" -> emitTarget(S, i, rnd, tie)
      [] OTHER -> emitPlain(S, i, n, tie)

(* handleMessage applying msg.updates before the switch on msg.command, as *)
(* lib/server.js did in its earlier revision: no handler is left waiting   *)
(* with updates to apply.                                                  *)
handleMessageUpdatesFirst(S, msg, rinfo, rnd, tie) ==
    LET S0 == addPeer(S, Info(msg.sender_id, rinfo))
        S1 == applyUpdates(S0, msg.updates, tie)
        si == getPeer(S1.peers, msg.sender_id)
    IN CASE msg.command = "ack" ->
              IF si = 0 THEN emitServer(S1, "error", tie)
              ELSE emitObs(S1, si, "ack", tie)
         [] msg.command = "ping" ->
              IF si = 0 THEN emitServer(S1, "error", tie)
              ELSE [send(emitObs(S1, si, "ping", tie), msg.sender_id, "ack",
                         msg.sender_id, "", tie)
                      EXCEPT !.conts =
                         Append(@, Cont("handlePing", msg.sender_id,
                                        msg.sender_id, <<>>))]
         [] msg.command = "ping-req" ->
              LET S2 == addPeer(S1, Info(msg.target_id, msg.target_address))
                  ti == getPeer(S2.peers, msg.target_id)
              IN IF si = 0 THEN emitServer(S2, "error", tie)
                 ELSE LET S3 == emitObs(S2, si, "ping-req", tie)
                      IN IF ti = 0 THEN emitServer(S3, "error", tie)
                         ELSE [send(S3, msg.target_id, "ping", msg.target_id, "", tie)
                                 EXCEPT !.conts =
                                    Append(@, Cont("handlePingReq", msg.sender_id,
                                                   msg.target_id, <<>>))]
         [] msg.command = "event" ->
              IF si = 0 THEN emitServer(S1, "error", tie)
              ELSE handleEvent(S1, si, msg.eventName, rnd, tie)
         [] msg.command = "event-req" ->
              [S1 EXCEPT !.timers =
                  Append(@, EventReqL(msg.sender_id, msg.target_id, msg.eventName))]
         [] OTHER -> emitServer(S1, "unrecognized-command", tie)

(* handleMessage(msg, rinfo) up to its first `await`, or to its end when   *)
(* the command has none.  A call on an undefined sender or target throws:  *)
(* the promise rejects and the socket listener emits 'error'.              *)
handleMessage(S, msg, rinfo, rnd, tie) ==
    LET S1 == addPeer(S, Info(msg.sender_id, rinfo))
        si == getPeer(S1.peers, msg.sender_id)
    IN CASE msg.command = "ack" ->
              IF si = 0 THEN emitServer(S1, "error", tie)
              ELSE applyUpdates(emitObs(S1, si, "ack", tie), msg.updates, tie)
         [] msg.command = "ping" ->
              IF si = 0 THEN emitServer(S1, "error", tie)
              ELSE [send(emitObs(S1, si, "ping", tie), msg.sender_id, "ack",
                         msg.sender_id, "", tie)
                      EXCEPT !.conts =
                         Append(@, Cont("handlePing", msg.sender_id,
                                        msg.sender_id, msg.updates))]
         [] msg.command = "ping-req" ->
              LET S2 == addPeer(S1, Info(msg.target_id, msg.target_address))
                  ti == getPeer(S2.peers, msg.target_id)
              IN IF si = 0 THEN emitServer(S2, "error", tie)
                 ELSE LET S3 == emitObs(S2, si, "ping-req", tie)
                      IN IF ti = 0 THEN emitServer(S3, "error", tie)
                         ELSE [send(S3, msg.target_id, "ping", msg.target_id, "", tie)
                                 EXCEPT !.conts =
                                    Append(@, Cont("handlePingReq", msg.sender_id,
                                                   msg.target_id, msg.updates))]
         [] msg.command = "event" ->
              IF si = 0 THEN emitServer(S1, "error", tie)
              ELSE applyUpdates(handleEvent(S1, si, msg.eventName, rnd, tie),
                                msg.updates, tie)
         [] msg.command = "event-req" ->
              applyUpdates(
                  [S1 EXCEPT !.timers =
                      Append(@, EventReqL(msg.sender_id, msg.target_id, msg.eventName))],
                  msg.updates, tie)
         [] OTHER -> emitServer(S1, "unrecognized-command", tie)

(* The rest of the async functions with handlePingReq waiting for the ack  *)
(* of the sender in place of the target's: sender.once('ack', ...) and the *)
(* ack sent to the target.                                                 *)
resumeAwaitsSender(S, c, tie) ==
    CASE c.kind = "handlePing" -> applyUpdates(S, c.updates, tie)
      [] c.kind = "handlePingReq" ->
           applyUpdates([S EXCEPT !.timers = Append(@, RelayT(c.target, c.sender))],
                        c.updates, tie)
      [] c.kind = "probe" ->
           armStart([S EXCEPT !.timers = Append(@, TargetT(c.target))])
      [] OTHER ->
           [S EXCEPT !.timers = Append(@, IndirectT(c.sender, c.target))]

(* The rest of an async function once its send has completed.              *)
resume(S, c, tie) ==
    CASE c.kind = "handlePing" -> applyUpdates(S, c.updates, tie)
      [] c.kind = "handlePingReq" ->
           applyUpdates([S EXCEPT !.timers = Append(@, RelayT(c.sender, c.target))],
                        c.updates, tie)
      [] c.kind = "probe" ->
           armStart([S EXCEPT !.timers = Append(@, TargetT(c.target))])
      [] OTHER ->
           [S EXCEPT !.timers = Append(@, IndirectT(c.sender, c.target))]

(* The timer callbacks with the indirect probe's () => target.suspect()    *)
(* doing nothing.                                                          *)
expireNoSuspicion(S, e, rnd, perm, tie) ==
    CASE e.kind = "target" -> emitTarget(S, getPeer(S.peers, e.peer), rnd, tie)
      [] e.kind = "suspect" -> faulty(S, getPeer(S.peers, e.peer), tie)
      [] e.kind = "start" -> start(S, perm, tie)
      [] OTHER -> S

(* The callback of an expired timer.                                       *)
expire(S, e, rnd, perm, tie) ==
    CASE e.kind = "target" -> emitTarget(S, getPeer(S.peers, e.peer), rnd, tie)
      [] e.kind = "indirect" -> suspect(S, getPeer(S.peers, e.peer), tie)
      [] e.kind = "suspect" -> faulty(S, getPeer(S.peers, e.peer), tie)
      [] e.kind = "start" -> start(S, perm, tie)
      [] OTHER -> S

-----------------------------------------------------------------------------
(* The environment's inputs.                                               *)

UpdateIn ==
    [id : Ids, status : Statuses, sequence : Seqs, address : {UpdAddr}]

(* An inbound update as the sender's buffer held it, count included.       *)
Counts == 0..MaxCount

CountedIn ==
    [id : Ids, status : Statuses, sequence : Seqs, address : {UpdAddr},
     count : Counts]

MsgUpdates == {<<>>} \cup {<<u>> : u \in UpdateIn}

EventNames == {"foobar", "event"}

Last(op, id, t, us) == [op |-> op, id |-> id, target |-> t, updates |-> us]

(* A callback runs only while the event loop is not stuck.                 *)
Step(S, l) == ~hung /\ Commit(S, l)

(* The model follows a callback only within its bounds.                    *)
Fits(b, t, c) ==
    /\ Len(updates') <= b
    /\ Len(timers') <= t
    /\ Len(conts') <= c

-----------------------------------------------------------------------------
(* The state after init(peers): the peers added in the order given, the    *)
(* array shuffled by setIter(), the iterator at its start.                 *)

InitTables(among) ==
    UNION {{[k \in 1..Cardinality(ids) |-> NewPeer(Info(f[k], CfgAddr))] :
                f \in {g \in [1..Cardinality(ids) -> ids] :
                          \A x, y \in 1..Cardinality(ids) : x # y => g[x] # g[y]}} :
           ids \in SUBSET among}

InitOf(among) ==
    /\ peers \in InitTables(among)
    /\ sequence = 0
    /\ updates = <<>>
    /\ timers = <<>>
    /\ conts = <<>>
    /\ iter = [snap |-> [k \in 1..Len(peers) |-> peers[k].id], pos |-> 0]
    /\ hung = FALSE
    /\ sent = <<>>
    /\ events = <<>>
    /\ last = Last("init", OwnId, OwnId, <<>>)
    /\ periods = 0
    /\ stopped = FALSE
    /\ down = {}

Init == InitOf(PeerIds)

-----------------------------------------------------------------------------
(* Actions: one per callback.                                              *)

(* socket.on('message'): a datagram that parses, by command.               *)
ReceiveAck(s, us, tie) ==
    Step(handleMessage(Cur, Msg("ack", s, s, TgtAddr, "", us), SrcAddr, s, tie),
         Last("ack", s, s, us))

ReceivePing(s, us, tie) ==
    Step(handleMessage(Cur, Msg("ping", s, s, TgtAddr, "", us), SrcAddr, s, tie),
         Last("ping", s, s, us))

ReceivePingReq(s, t, us, tie) ==
    Step(handleMessage(Cur, Msg("ping-req", s, t, TgtAddr, "", us), SrcAddr, s, tie),
         Last("ping-req", s, t, us))

ReceiveEvent(s, n, us, rnd, tie) ==
    Step(handleMessage(Cur, Msg("event", s, s, TgtAddr, n, us), SrcAddr, rnd, tie),
         Last("event", s, s, us))

ReceiveEventReq(s, src, n, us, tie) ==
    Step(handleMessage(Cur, Msg("event-req", s, src, TgtAddr, n, us), SrcAddr, s, tie),
         Last("event-req", s, src, us))

ReceiveUnrecognized(s, us, tie) ==
    Step(handleMessage(Cur, Msg("pong", s, s, TgtAddr, "", us), SrcAddr, s, tie),
         Last("pong", s, s, us))

(* What msg.sender_id, msg.command and msg.target_id yield when msg is a    *)
(* string: undefined, a value that is no id.                               *)
Undefined == 0 - 2

(* socket.on('message') for a datagram that fails JSON.parse: the catch    *)
(* emits 'error' with 'Invalid message: "<raw>"', and the listener goes on *)
(* to handleMessage(msg, rinfo) with msg the raw string.                   *)
ReceiveInvalid(tie) ==
    Step(handleMessage(emitServer(Cur, "error", tie),
                       Msg("undefined", Undefined, Undefined, TgtAddr, "", <<>>),
                       SrcAddr, Undefined, tie),
         Last("invalid", Undefined, Undefined, <<>>))

(* The send of a suspended async function completes.                       *)
Resume(k, tie) ==
    /\ k \in 1..Len(conts)
    /\ Step(resume([Cur EXCEPT !.conts = RemoveAt(@, k)], conts[k], tie),
            Last(conts[k].kind, conts[k].sender, conts[k].target, conts[k].updates))

(* The send of a suspended async function fails: socket.send calls back    *)
(* with an error, and Peer.send's callback () => resolve(msg) takes no     *)
(* argument, so the async function goes on as after a send that completed. *)
SendFailed(k, tie) ==
    /\ k \in 1..Len(conts)
    /\ Step(resume([Cur EXCEPT !.conts = RemoveAt(@, k)], conts[k], tie),
            Last(conts[k].kind \o "-failed", conts[k].sender, conts[k].target,
                 conts[k].updates))

(* The oldest pending timer expires.                                       *)
IsTimer(e) == e.kind # "eventReq"

Expire(rnd, perm, tie) ==
    /\ \E k \in 1..Len(timers) : IsTimer(timers[k])
    /\ LET k == CHOOSE j \in 1..Len(timers) :
                    IsTimer(timers[j]) /\ \A h \in 1..(j - 1) : ~IsTimer(timers[h])
       IN Step(expire([Cur EXCEPT !.timers = RemoveAt(@, k)], timers[k], rnd, perm, tie),
               Last(timers[k].kind, timers[k].via, timers[k].peer, <<>>))

(* The public API.                                                         *)
Start(perm, tie) == Step(start(Cur, perm, tie), Last("start", OwnId, OwnId, <<>>))

Stop == Step(stop(Cur), Last("stop", OwnId, OwnId, <<>>))

AddPeer(id) == Step(addPeer(Cur, Info(id, CfgAddr)), Last("addPeer", id, id, <<>>))

HandleUpdate(u, tie) == Step(handleUpdate(Cur, u, tie), Last("handleUpdate", u.id, u.id, <<u>>))

(* The environment: another node is stopped (docker-compose stop) or       *)
(* started again (docker-compose start).  The engine runs no callback.     *)
NodeStops(p) ==
    /\ p \notin down
    /\ Commit(Cur, Last("node-stop", p, p, <<>>))

NodeStarts(p) ==
    /\ p \in down
    /\ Commit(Cur, Last("node-start", p, p, <<>>))

Perms == Permutations(1..Len(peers))

-----------------------------------------------------------------------------
(* Gossip.  Updates about the engine and about one peer are handled one at *)
(* a time, the peer is heard from (its ack arrives) and suspicion timers   *)
(* expire; the other configured peers stand by.  No datagram is sent by    *)
(* these callbacks, so the order of ties in the buffer plays no part.      *)

Subjects == {1}

NextUpdates ==
    \/ \E u \in {v \in UpdateIn : v.id \in {OwnId} \cup Subjects} :
          HandleUpdate(u, "fifo") /\ Fits(MaxUpdates, MaxTimers, 0)
    \/ \E s \in Subjects :
          ReceiveAck(s, <<>>, "fifo") /\ Fits(MaxUpdates, MaxTimers, 0)
    \/ \E rnd \in PeerIds, perm \in Perms :
          Expire(rnd, perm, "fifo") /\ Fits(MaxUpdates, MaxTimers, 0)

SpecUpdates == Init /\ [][NextUpdates]_vars

Max(a, b) == IF a > b THEN a ELSE b

Known(ps, id) == getPeer(ps, id) # 0

PeerById(ps, id) == ps[getPeer(ps, id)]

(* The callback just run was handleUpdate(u) for an update about `id`.     *)
Handled(l, id, status) ==
    /\ l.op = "handleUpdate"
    /\ l.updates[1].id = id
    /\ l.updates[1].status = status

(* C1: a peer's sequence never decreases.  It changes only when an update  *)
(* about that peer is handled whose sequence is strictly larger, and then  *)
(* it becomes that sequence.                                               *)
C1_SequenceNeverDecreases ==
    [][\A i \in 1..Len(peers) :
          LET id == peers[i].id
              old == peers[i].sequence
          IN /\ Known(peers', id)
             /\ PeerById(peers', id).sequence >= old
             /\ PeerById(peers', id).sequence # old =>
                   \E k \in 1..Len(last'.updates) :
                      /\ last'.updates[k].id = id
                      /\ last'.updates[k].sequence > old
                      /\ last'.updates[k].sequence = PeerById(peers', id).sequence
      ]_vars

(* A stale update has just been handled by a peer whose sequence had been  *)
(* raised: the sequence stayed.                                            *)
C1_Witness ==
    /\ last.op = "handleUpdate"
    /\ Known(peers, last.id)
    /\ PeerById(peers, last.id).sequence > last.updates[1].sequence

(* C4: handling {own id, suspect, own current sequence} adds exactly 1 to  *)
(* the own sequence and appends exactly one entry to the buffer,           *)
(* {own id, alive, the new sequence, count 0}.                             *)
C4_SelfRefutation ==
    [][(Handled(last', OwnId, "suspect") /\ last'.updates[1].sequence = sequence)
          => /\ sequence' = sequence + 1
             /\ updates' =
                   Append(updates,
                          [id |-> OwnId, status |-> "alive",
                           sequence |-> sequence + 1, count |-> 0,
                           address |-> OwnAddr])
      ]_vars

(* The engine refuted a suspicion of itself while its buffer held other    *)
(* entries.                                                                *)
C4_Witness ==
    /\ Handled(last, OwnId, "suspect")
    /\ last.updates[1].sequence + 1 = sequence
    /\ Len(updates) >= 2
    /\ updates[Len(updates)].id = OwnId
    /\ updates[Len(updates)].sequence = sequence
    /\ updates[Len(updates)].count = 0

(* The callback before this one was the alive update that revived `id`.    *)
RevivedByUpdate(id) ==
    /\ Handled(last, id, "alive")
    /\ Ev(id, "alive") \in Range(events)

(* C9 as stated: once an update with sequence S has set a peer alive, no   *)
(* later update with a sequence <= S makes it faulty.  Stated for the      *)
(* update handled right after the one that set the peer alive.             *)
C9_Original ==
    [][\A i \in 1..Len(peers) :
          (/\ RevivedByUpdate(peers[i].id)
           /\ last'.op = "handleUpdate"
           /\ last'.updates[1].id = peers[i].id
           /\ last'.updates[1].sequence <= last.updates[1].sequence)
          => PeerById(peers', peers[i].id).status # "faulty"
      ]_vars

(* C9: a faulty update, of any sequence, makes a peer that is not faulty   *)
(* faulty exactly when the larger of the peer's sequence and the update's  *)
(* exceeds the sequence at which the peer was last made faulty.  A peer    *)
(* that an update has just set alive is made faulty by a faulty update of  *)
(* any sequence.                                                           *)
C9_FaultyUpdate ==
    [][\A i \in 1..Len(peers) :
          (/\ Handled(last', peers[i].id, "faulty")
           /\ peers[i].status # "faulty")
          => /\ PeerById(peers', peers[i].id).status = "faulty"
                  <=> Max(peers[i].sequence, last'.updates[1].sequence)
                         > peers[i].lastFaulty
             /\ RevivedByUpdate(peers[i].id)
                  => PeerById(peers', peers[i].id).status = "faulty"
      ]_vars

(* A peer was made faulty at sequence 0, set alive by an update with       *)
(* sequence 1 and made faulty again by a faulty update with a sequence     *)
(* <= 1: the buffer holds the three announcements.                         *)
C9_Witness ==
    /\ last.op = "handleUpdate"
    /\ last.updates[1].status = "faulty"
    /\ last.updates[1].sequence <= 1
    /\ \E k \in 1..(Len(updates) - 2) :
          /\ \A h \in k..(k + 2) : updates[h].id = last.id
          /\ updates[k].status = "faulty" /\ updates[k].sequence = 0
          /\ updates[k + 1].status = "alive" /\ updates[k + 1].sequence = 1
          /\ updates[k + 2].status = "faulty" /\ updates[k + 2].sequence = 1

(* C10: a suspect update of any sequence handled by a faulty peer leaves   *)
(* the peer faulty, arms no timer, emits no status event and announces     *)
(* nothing; only the peer's sequence may advance.                          *)
C10_SuspectOnFaulty ==
    [][\A i \in 1..Len(peers) :
          (/\ Handled(last', peers[i].id, "suspect")
           /\ peers[i].status = "faulty")
          => /\ peers' = [peers EXCEPT ![i].sequence =
                             Max(@, last'.updates[1].sequence)]
             /\ timers' = timers
             /\ updates' = updates
             /\ \A e \in Range(events') : e.name \notin Statuses
      ]_vars

(* A faulty peer has just handled a suspect update with a larger sequence: *)
(* it is still faulty and its sequence advanced.                           *)
C10_Witness ==
    /\ Handled(last, last.id, "suspect")
    /\ Known(peers, last.id)
    /\ PeerById(peers, last.id).status = "faulty"
    /\ PeerById(peers, last.id).sequence = last.updates[1].sequence
    /\ events = <<Ev(last.id, "sequence")>>

(* The record of peer i after Peer.handleUpdate(u) and then                 *)
(* Peer.handleUpdate(v), from the current state.                           *)
AfterBoth(i, u, v) ==
    PeerHandleUpdate(PeerHandleUpdate(Cur, i, u, "fifo"), i, v, "fifo").peers[i]

(* C13 as stated: for any peer record and any two updates about that peer, *)
(* handling them in either order leaves the record with the same status    *)
(* and the same sequence.  The record is any the engine reaches, the first *)
(* update is the one the callback handles, the second is any other.        *)
C13_Original ==
    [][\A i \in 1..Len(peers) :
          (last'.op = "handleUpdate" /\ last'.id = peers[i].id)
          => LET u == last'.updates[1]
             IN /\ peers' = PeerHandleUpdate(Cur, i, u, "fifo").peers
                /\ \A v \in {w \in UpdateIn : w.id = peers[i].id} :
                      /\ AfterBoth(i, u, v).status = AfterBoth(i, v, u).status
                      /\ AfterBoth(i, u, v).sequence = AfterBoth(i, v, u).sequence
      ]_vars

(* C14 as stated: whenever the suspect timeout of a suspect peer expires   *)
(* (no alive event cancelled it), the peer becomes faulty and a faulty     *)
(* update with the peer's sequence is appended to the buffer, every time   *)
(* the peer enters suspect.                                                *)
C14_Original ==
    [][\A i \in 1..Len(peers) :
          (/\ last'.op = "suspect"
           /\ last'.target = peers[i].id
           /\ peers[i].status = "suspect")
          => /\ PeerById(peers', peers[i].id).status = "faulty"
             /\ updates' =
                   Append(updates,
                          [id |-> peers[i].id, status |-> "faulty",
                           sequence |-> peers[i].sequence, count |-> 0,
                           address |-> peers[i].address])
      ]_vars

-----------------------------------------------------------------------------
(* Replies.  One peer sends pings and acks that carry at most one update,  *)
(* about the engine or about itself; the engine answers, its sends         *)
(* complete and its timers expire.  The peer is configured or not.         *)

ReplyUpdates(s) ==
    {<<>>} \cup
    {<<u>> : u \in {v \in UpdateIn :
                       \/ v.id = OwnId /\ v.status = "suspect"
                       \/ v.id = s}}

NextReply ==
    \/ \E s \in Subjects : \E us \in ReplyUpdates(s), tie \in TieOrders :
          ReceiveAck(s, us, tie) /\ Fits(MaxPending, MaxTimers, MaxConts)
    \/ \E s \in Subjects : \E us \in ReplyUpdates(s), tie \in TieOrders :
          ReceivePing(s, us, tie) /\ Fits(MaxPending, MaxTimers, MaxConts)
    \/ \E k \in 1..MaxConts, tie \in TieOrders :
          Resume(k, tie) /\ Fits(MaxPending, MaxTimers, MaxConts)
    \/ \E rnd \in PeerIds, perm \in Perms, tie \in TieOrders :
          Expire(rnd, perm, tie) /\ Fits(MaxPending, MaxTimers, MaxConts)

SpecReply == InitOf(Subjects) /\ [][NextReply]_vars

(* C2 as stated: every entry of the buffer has 0 <= count < limit.         *)
C2_Original ==
    \A k \in 1..Len(updates) :
        0 <= updates[k].count /\ updates[k].count < limit(peers)

(* C2: every entry of the buffer has 0 <= count <= limit, in every state,  *)
(* right after getUpdates() included: getUpdates() drops the entries whose *)
(* count has reached the limit before it counts the entries it returns.    *)
C2_CountAtMostLimit ==
    \A k \in 1..Len(updates) :
        0 <= updates[k].count /\ updates[k].count <= limit(peers)

(* A datagram has just been sent and an entry it carries has reached the   *)
(* limit: the entry is still in the buffer.                                *)
C2_Witness ==
    /\ sent # <<>>
    /\ \E k \in 1..Len(updates) :
          /\ updates[k].count = limit(peers)
          /\ \E v \in Range(sent[1].updates) :
                v.id = updates[k].id /\ v.count = updates[k].count

SelfSuspect(u, seq) == u.id = OwnId /\ u.status = "suspect" /\ u.sequence = seq

Refutation(v, seq) == v.id = OwnId /\ v.status = "alive" /\ v.sequence = seq

SuspectsSender(l) ==
    /\ l.updates # <<>>
    /\ l.updates[1].id = l.id
    /\ l.updates[1].status = "suspect"

-----------------------------------------------------------------------------
(* The peer table.  Peers are added through the API, by datagrams from     *)
(* unknown senders, by ping-reqs that name unknown targets and by alive    *)
(* updates about unknown peers; the ids are those of the peers and the     *)
(* engine's own.  No status changes, so the buffer stays empty and the     *)
(* order of ties plays no part.                                            *)

NextTable ==
    \/ \E id \in Ids : AddPeer(id) /\ Fits(0, 1, MaxConts)
    \/ \E s \in Ids :
          ReceiveAck(s, <<>>, "fifo") /\ Fits(0, 1, MaxConts)
    \/ \E s \in Ids, t \in Ids :
          ReceivePingReq(s, t, <<>>, "fifo") /\ Fits(0, 1, MaxConts)
    \/ \E k \in 1..MaxConts :
          Resume(k, "fifo") /\ Fits(0, 1, MaxConts)
    \/ \E rnd \in PeerIds, perm \in Perms :
          Expire(rnd, perm, "fifo") /\ Fits(0, 1, MaxConts)
    \/ \E u \in {v \in UpdateIn : v.sequence = 0 /\ v.status = "alive"} :
          HandleUpdate(u, "fifo") /\ Fits(0, 1, MaxConts)

SpecTable == Init /\ [][NextTable]_vars

TableOK(ps) ==
    /\ \A i \in 1..Len(ps) : ps[i].id # OwnId
    /\ \A i, j \in 1..Len(ps) : i # j => ps[i].id # ps[j].id

(* C8: the peer table never holds a record with the engine's own id nor    *)
(* two records with the same id, and addPeer with the own id or with an id *)
(* already in the table leaves the table as it is.                         *)
C8_TableHasNoSelfNoDuplicate ==
    [][/\ TableOK(peers)
       /\ TableOK(peers')
       /\ (last'.op = "addPeer" /\ (last'.id = OwnId \/ Known(peers, last'.id)))
             => peers' = peers
      ]_vars

(* A ping-req that names the engine itself as its target has been handled  *)
(* with every peer in the table: the handler failed on the missing target. *)
C8_Witness ==
    /\ last.op = "ping-req"
    /\ last.target = OwnId
    /\ Ev(OwnId, "error") \in Range(events)
    /\ Len(peers) = MaxPeers

-----------------------------------------------------------------------------
(* A flooded buffer.  The engine is suspected again and again at its       *)
(* current sequence and refutes each time, MaxFlood times at most; it is   *)
(* started once, probes its peer every period and answers the peer's       *)
(* pings.                                                                  *)

SuspicionNow ==
    [id |-> OwnId, status |-> "suspect", sequence |-> sequence, address |-> UpdAddr]

NotStarted ==
    /\ \A k \in 1..Len(timers) : timers[k].kind # "start"
    /\ \A k \in 1..Len(conts) : conts[k].kind # "probe"

NextFlood ==
    \/ \E tie \in TieOrders :
          /\ sequence < MaxFlood
          /\ HandleUpdate(SuspicionNow, tie)
          /\ Fits(MaxFlood, MaxTimers, MaxConts)
    \/ \E perm \in Perms, tie \in TieOrders :
          NotStarted /\ Start(perm, tie) /\ Fits(MaxFlood, MaxTimers, MaxConts)
    \/ \E s \in Subjects, tie \in TieOrders :
          ReceiveAck(s, <<>>, tie) /\ Fits(MaxFlood, MaxTimers, MaxConts)
    \/ \E s \in Subjects, tie \in TieOrders :
          ReceivePing(s, <<>>, tie) /\ Fits(MaxFlood, MaxTimers, MaxConts)
    \/ \E k \in 1..MaxConts, tie \in TieOrders :
          Resume(k, tie) /\ Fits(MaxFlood, MaxTimers, MaxConts)
    \/ \E rnd \in PeerIds, perm \in Perms, tie \in TieOrders :
          Expire(rnd, perm, tie) /\ Fits(MaxFlood, MaxTimers, MaxConts)

SpecFlood == InitOf(Subjects) /\ [][NextFlood]_vars

Live(buf, lim) == Len(SelectSeq(buf, LAMBDA u : u.count < lim))

NeverSent(buf) == Len(SelectSeq(buf, LAMBDA u : u.count = 0))

(* C3: no datagram carries more than six updates, whatever the buffer      *)
(* holds; the ping of a protocol period carries min(6, number of live      *)
(* entries) updates, live being count < limit when the ping is built.      *)
C3_AtMostSixUpdates ==
    [][/\ \A d \in Range(sent') : Len(d.updates) <= MaxPiggyback
       /\ (last'.op = "start" /\ sent' # <<>>)
             => Len(sent'[1].updates)
                   = Min(MaxPiggyback, Live(updates, limit(peers)))
      ]_vars

(* A datagram has left with six updates while the buffer holds more.       *)
C3_Witness ==
    /\ sent # <<>>
    /\ Len(sent[1].updates) = MaxPiggyback
    /\ Len(updates) > MaxPiggyback

(* The refutation of the latest suspicion has never been sent.             *)
RefutationUnsent ==
    \E k \in 1..Len(updates) :
        Refutation(updates[k], sequence) /\ updates[k].count = 0

(* C7 as stated: the refutation is carried on a datagram no later than the *)
(* end of the next protocol period, whatever else the buffer holds: when   *)
(* the period that began after the refutation ends (start() runs again)    *)
(* and the engine has had a peer to probe, the refutation has been sent.   *)
C7_Original ==
    [][~(/\ periods = 1
         /\ last'.op = "start"
         /\ peersOnline(peers) # <<>>
         /\ iter.snap # <<>>
         /\ RefutationUnsent)
      ]_vars

(* C7: the refutation is appended with count 0 and is carried by the next  *)
(* datagram the engine sends whenever the buffer holds at most six entries *)
(* that were never sent when that datagram is built.  With more of them    *)
(* the order of ties decides, and no datagram is sent in a period that     *)
(* finds no peer to probe.                                                 *)
C7_RefutationOnNextDatagram ==
    [][(/\ RefutationUnsent
        /\ NeverSent(updates) <= MaxPiggyback
        /\ sequence' = sequence
        /\ sent' # <<>>
        /\ \A e \in Range(events') : e.name \notin Statuses)
          => \E v \in Range(sent'[1].updates) : Refutation(v, sequence)
      ]_vars

(* A datagram has just carried the refutation out of a buffer that holds   *)
(* more entries than a datagram takes.                                     *)
C7_Witness ==
    /\ sent # <<>>
    /\ \E v \in Range(sent[1].updates) : Refutation(v, sequence) /\ v.count = 1
    /\ Len(updates) > MaxPiggyback

-----------------------------------------------------------------------------
(* Observations.  One peer is gossiped about and is heard from: its acks,  *)
(* pings, ping-reqs, events and event-reqs arrive, none carrying updates;  *)
(* the engine's sends complete and its timers expire.  Gossip suspects the *)
(* peer, declares it faulty, or announces it alive at either sequence.     *)
(* The callbacks that send nothing do not depend on the order of ties.     *)

NextObserve ==
    \/ \E u \in {v \in UpdateIn : v.id \in Subjects /\ (v.sequence = 0 \/ v.status = "alive")} :
          HandleUpdate(u, "fifo") /\ Fits(MaxPending, MaxTimers, MaxConts)
    \/ \E s \in Subjects, tie \in TieOrders :
          ReceiveAck(s, <<>>, tie) /\ Fits(MaxPending, MaxTimers, MaxConts)
    \/ \E s \in Subjects, tie \in TieOrders :
          ReceivePing(s, <<>>, tie) /\ Fits(MaxPending, MaxTimers, MaxConts)
    \/ \E s \in Subjects, t \in Subjects, tie \in TieOrders :
          ReceivePingReq(s, t, <<>>, tie) /\ Fits(MaxPending, MaxTimers, MaxConts)
    \/ \E s \in Subjects, n \in EventNames, tie \in TieOrders :
          ReceiveEvent(s, n, <<>>, s, tie) /\ Fits(MaxPending, MaxTimers, MaxConts)
    \/ \E s \in Subjects :
          ReceiveEventReq(s, s, "foobar", <<>>, "fifo") /\ Fits(MaxPending, 1, MaxConts)
    \/ \E k \in 1..MaxConts :
          Resume(k, "fifo") /\ Fits(MaxPending, MaxTimers, MaxConts)
    \/ \E rnd \in Subjects, perm \in Perms :
          Expire(rnd, perm, "fifo") /\ Fits(MaxPending, MaxTimers, MaxConts)

SpecObserve == InitOf(Subjects) /\ [][NextObserve]_vars

(* A datagram of any of the five commands was just received from `id`.     *)
HeardFrom(l, id) ==
    /\ l.op \in {"ack", "ping", "ping-req", "event", "event-req"}
    /\ l.id = id

(* The callback emitted one of the events the Peer constructor listens to  *)
(* with () => this.alive().                                                *)
Observed(evs, id) ==
    \E e \in Range(evs) : e.src = id /\ e.name \in ObsNames

(* C11 as stated: a faulty peer leaves that status only by an alive update *)
(* whose sequence is strictly higher than the peer's recorded sequence.    *)
C11_Original ==
    [][\A i \in 1..Len(peers) :
          (/\ peers[i].status = "faulty"
           /\ PeerById(peers', peers[i].id).status # "faulty")
          => /\ Handled(last', peers[i].id, "alive")
             /\ last'.updates[1].sequence > peers[i].sequence
      ]_vars

(* C11: a faulty peer leaves that status only for alive, and only in a     *)
(* callback that either handles an alive update about it whose sequence is *)
(* strictly higher than its recorded sequence, or emits an observation of  *)
(* it (ack, ping, ping-req, event, event-req).  No timer expiry, no send   *)
(* completion and no other update does it.                                 *)
C11_FaultyLeftByAliveOrObservation ==
    [][\A i \in 1..Len(peers) :
          (/\ peers[i].status = "faulty"
           /\ PeerById(peers', peers[i].id).status # "faulty")
          => /\ PeerById(peers', peers[i].id).status = "alive"
             /\ \/ /\ Handled(last', peers[i].id, "alive")
                   /\ last'.updates[1].sequence > peers[i].sequence
                \/ /\ HeardFrom(last', peers[i].id)
                   /\ Observed(events', peers[i].id)
      ]_vars

(* A peer that had been announced faulty was heard from (its ack arrived)  *)
(* and is alive again at the same sequence.                                *)
C11_Witness ==
    /\ last.op = "ack"
    /\ events = <<Ev(last.id, "ack"), Ev(last.id, "alive")>>
    /\ Len(updates) >= 2
    /\ updates[Len(updates) - 1].id = last.id
    /\ updates[Len(updates) - 1].status = "faulty"
    /\ updates[Len(updates)].id = last.id
    /\ updates[Len(updates)].status = "alive"
    /\ updates[Len(updates)].sequence = updates[Len(updates) - 1].sequence

(* C12 as stated: a datagram of any of the five commands received from a   *)
(* peer leaves that peer alive, whatever its status was, and the alive     *)
(* event is emitted exactly when the status changed.                       *)
C12_Original ==
    [][\A i \in 1..Len(peers) :
          HeardFrom(last', peers[i].id)
          => /\ PeerById(peers', peers[i].id).status = "alive"
             /\ (Ev(peers[i].id, "alive") \in Range(events'))
                   <=> peers[i].status # "alive"
      ]_vars

-----------------------------------------------------------------------------
(* Probes.  The engine is started once and runs its protocol periods: it   *)
(* pings, asks for indirect pings and suspects.  The peers answer with     *)
(* acks or stay silent, and gossip suspects them or declares them faulty.  *)

ProbeGossip ==
    {v \in UpdateIn : v.id \in PeerIds /\ v.sequence = 0 /\ v.status # "alive"}

NextProbe ==
    \/ \E perm \in Perms, tie \in TieOrders :
          NotStarted /\ Start(perm, tie) /\ Fits(MaxGossip, MaxProbeTimers, MaxConts)
    \/ \E k \in 1..MaxConts, tie \in TieOrders :
          Resume(k, tie) /\ Fits(MaxGossip, MaxProbeTimers, MaxConts)
    \/ \E rnd \in PeerIds, perm \in Perms, tie \in TieOrders :
          Expire(rnd, perm, tie) /\ Fits(MaxGossip, MaxProbeTimers, MaxConts)
    \/ \E s \in PeerIds, tie \in TieOrders :
          ReceiveAck(s, <<>>, tie) /\ Fits(MaxGossip, MaxProbeTimers, MaxConts)
    \/ \E u \in ProbeGossip :
          HandleUpdate(u, "fifo") /\ Fits(MaxGossip, MaxProbeTimers, MaxConts)

SpecProbe == Init /\ [][NextProbe]_vars

(* The suspect update appended when peer p is suspected.                   *)
Announce(p, status) ==
    [id |-> p.id, status |-> status, sequence |-> p.sequence, count |-> 0,
     address |-> p.address]

(* The indirect-probe timeout of a probe of `id` has just expired.          *)
IndirectExpired(l, id) == l.op = "indirect" /\ l.target = id

(* C15: suspect() on a peer that is suspect or faulty changes nothing.     *)
(* suspect() is called on such a peer when the timeout of an indirect      *)
(* probe expires: the peer table, the buffer and every other pending timer *)
(* (the suspect deadline, in its place in the queue) stay as they are, no  *)
(* event is emitted and nothing is sent.                                   *)
C15_SuspectIdempotent ==
    [][\A i \in 1..Len(peers) :
          (IndirectExpired(last', peers[i].id) /\ peers[i].status # "alive")
          => /\ peers' = peers
             /\ updates' = updates
             /\ events' = <<>>
             /\ sent' = <<>>
             /\ \E k \in 1..Len(timers) :
                   /\ timers[k].kind = "indirect"
                   /\ timers[k].peer = peers[i].id
                   /\ timers' = RemoveAt(timers, k)
      ]_vars

(* The indirect probe of a peer timed out while gossip had the peer        *)
(* suspect already: its suspect deadline is still pending.                 *)
C15_Witness ==
    /\ last.op = "indirect"
    /\ Known(peers, last.target)
    /\ PeerById(peers, last.target).status = "suspect"
    /\ events = <<>>
    /\ \E k \in 1..Len(timers) : timers[k] = SuspectT(last.target)

(* C17: a probe of T that no ACK answers ends with T suspect.  When the    *)
(* probe timeout expires (no ACK from T cancelled it) and there is an      *)
(* online peer other than T, a PING-REQ naming T is sent and T is left as  *)
(* it is; when the indirect timeout then expires (no ACK from the indirect *)
(* peer or from T cancelled it) and T is alive, T becomes suspect, exactly *)
(* one update {T, T's sequence, suspect, count 0} is appended and T's      *)
(* suspect deadline is armed.                                              *)
C17_SuspectAfterFailedProbe ==
    [][\A i \in 1..Len(peers) :
          /\ (/\ last'.op = "target"
              /\ last'.target = peers[i].id
              /\ Candidates(Cur, peers[i].id) # {})
             => /\ peers' = peers
                /\ updates' = getUpdates(updates, limit(peers), "fifo")
                      \/ updates' = getUpdates(updates, limit(peers), "lifo")
                /\ Len(sent') = 1
                /\ sent'[1].command = "ping-req"
                /\ sent'[1].target = peers[i].id
                /\ \E c \in Range(conts') :
                      c.kind = "pingReq" /\ c.target = peers[i].id
          /\ (IndirectExpired(last', peers[i].id) /\ peers[i].status = "alive")
             => /\ peers' = [peers EXCEPT ![i].status = "suspect"]
                /\ updates' = Append(updates, Announce(peers[i], "suspect"))
                /\ events' = <<Ev(peers[i].id, "suspect")>>
                /\ timers' # <<>>
                /\ timers'[Len(timers')] = SuspectT(peers[i].id)
      ]_vars

(* A probe ran its course: the indirect timeout expired on an alive peer,  *)
(* which is now suspect and announced as such.                             *)
C17_Witness ==
    /\ last.op = "indirect"
    /\ events = <<Ev(last.target, "suspect")>>
    /\ Known(peers, last.target)
    /\ PeerById(peers, last.target).status = "suspect"
    /\ updates # <<>>
    /\ updates[Len(updates)] = Announce(PeerById(peers, last.target), "suspect")

(* C18 as stated: when a direct probe of T times out, the PING-REQ goes to *)
(* a peer of the table other than T whose status is alive at that moment.  *)
C18_Original ==
    [][last'.op = "target"
          => \A d \in Range(sent') :
                d.command = "ping-req"
                => /\ d.target = last'.target
                   /\ d.to # last'.target
                   /\ Known(peers, d.to)
                   /\ PeerById(peers, d.to).status = "alive"
      ]_vars

(* C18: when a direct probe of T times out, the PING-REQ goes to a peer of *)
(* the table other than T whose status is not faulty at that moment: alive *)
(* or suspect.  With no such peer nothing is sent and the callback never   *)
(* returns.                                                                *)
C18_IndirectPeerNotFaulty ==
    [][last'.op = "target"
          => /\ \A d \in Range(sent') :
                   d.command = "ping-req"
                   => /\ d.target = last'.target
                      /\ d.to # last'.target
                      /\ Known(peers, d.to)
                      /\ PeerById(peers, d.to).status # "faulty"
             /\ Candidates(Cur, last'.target) = {} => (hung' /\ sent' = <<>>)
             /\ Candidates(Cur, last'.target) # {} => (~hung' /\ sent' # <<>>)
      ]_vars

(* A PING-REQ has just been sent to a peer that is suspect.                *)
C18_Witness ==
    /\ last.op = "target"
    /\ sent # <<>>
    /\ sent[1].command = "ping-req"
    /\ Known(peers, sent[1].to)
    /\ PeerById(peers, sent[1].to).status = "suspect"

(* C19 as stated: while the indirect probe of T through I is pending, an   *)
(* ACK from I or from T leaves T alive, also when gossip had made T        *)
(* suspect meanwhile, and ends the probe: its timeout will not suspect T.  *)
C19_Original ==
    [][\A k \in 1..Len(timers) :
          (/\ timers[k].kind = "indirect"
           /\ last'.op = "ack"
           /\ last'.id \in {timers[k].via, timers[k].peer}
           /\ Known(peers, timers[k].peer)
           /\ PeerById(peers, timers[k].peer).status # "faulty")
          => /\ PeerById(peers', timers[k].peer).status = "alive"
             /\ \A h \in 1..Len(timers') :
                   ~(timers'[h].kind = "indirect" /\ timers'[h].peer = timers[k].peer)
      ]_vars

-----------------------------------------------------------------------------
(* C16 is stated for SpecObserve: the peer is suspected by gossip and is   *)
(* then heard from, or gossip announces it alive at a higher sequence.     *)

(* C16: when a suspect peer becomes alive (an ack, ping or ping-req from   *)
(* it, or an alive update with a strictly higher sequence), its suspect    *)
(* timeout is cancelled, the alive event is emitted once and exactly one   *)
(* update {peer, alive, the peer's sequence} is appended with count 0; a   *)
(* datagram sent by the same callback may already carry it.  No suspect    *)
(* timeout is ever pending for a peer that is alive, so none makes it      *)
(* faulty later.                                                           *)
C16_AliveCancelsSuspectTimeout ==
    [][/\ \A i \in 1..Len(peers) :
             (/\ peers[i].status = "suspect"
              /\ PeerById(peers', peers[i].id).status = "alive")
             => LET p == PeerById(peers', peers[i].id)
                IN /\ \A k \in 1..Len(timers') : timers'[k] # SuspectT(p.id)
                   /\ Cardinality({k \in 1..Len(events') :
                                      events'[k] = Ev(p.id, "alive")}) = 1
                   /\ sent' = <<>>
                         => updates' = Append(updates, Announce(p, "alive"))
                   /\ sent' # <<>>
                         => /\ Len(updates') <= Len(updates) + 1
                            /\ \E k \in 1..Len(updates') :
                                  /\ updates'[k].count <= Len(sent')
                                  /\ [updates'[k] EXCEPT !.count = 0]
                                        = Announce(p, "alive")
       /\ \A k \in 1..Len(timers') :
             timers'[k].kind = "suspect"
             => PeerById(peers', timers'[k].peer).status # "alive"
      ]_vars

(* A suspect peer that was never faulty has pinged: it is alive, announced *)
(* alive, and no suspect timeout is pending.                               *)
C16_Witness ==
    /\ last.op = "ping"
    /\ events = <<Ev(last.id, "ping"), Ev(last.id, "alive")>>
    /\ PeerById(peers, last.id).lastFaulty = NeverFaulty
    /\ \A k \in 1..Len(timers) : timers[k].kind # "suspect"
    /\ \E k \in 1..Len(updates) :
          updates[k].id = last.id /\ updates[k].status = "alive"

-----------------------------------------------------------------------------
(* C20 is stated for SpecProbe: the protocol periods follow one another    *)
(* while gossip declares peers faulty and unknown peers are heard from.    *)

Order(ps) == [k \in 1..Len(ps) |-> ps[k].id]

IsPrefix(a, b) == Len(a) <= Len(b) /\ a = SubSeq(b, 1, Len(a))

EpochOver == iter.pos >= Len(iter.snap)

(* C20 as stated: an epoch is N periods long, N the number of peers in the *)
(* table: the epoch that begins at a wrap with a peer to ping takes in     *)
(* every peer of the table.                                                *)
C20_Original ==
    [][(last'.op = "start" /\ EpochOver /\ iter'.snap # <<>>)
          => /\ Len(iter'.snap) = Len(peers')
             /\ Range(iter'.snap) = Range(Order(peers'))
      ]_vars

(* C20: an epoch is the list of the peers that are not faulty when it      *)
(* begins, in the order the table has after the shuffle.  Each protocol    *)
(* period of the epoch sends one PING, to the next peer of that list, and  *)
(* leaves the list and the order of the table unchanged; the period after  *)
(* the last peer shuffles the table, begins a new epoch and pings its      *)
(* first peer, or sends nothing when every peer is faulty.  Outside        *)
(* start() the list never changes and the table only grows at its end.     *)
C20_EpochOfOnlinePeers ==
    [][/\ \A j, k \in 1..Len(iter.snap) : j # k => iter.snap[j] # iter.snap[k]
       /\ (last'.op = "start" /\ ~EpochOver)
             => /\ iter' = [iter EXCEPT !.pos = @ + 1]
                /\ Order(peers') = Order(peers)
                /\ Len(sent') = 1
                /\ sent'[1].command = "ping"
                /\ sent'[1].to = iter.snap[iter.pos + 1]
       /\ (last'.op = "start" /\ EpochOver)
             => /\ iter'.snap = Order(peersOnline(peers'))
                /\ Range(Order(peers')) = Range(Order(peers))
                /\ Len(peers') = Len(peers)
                /\ iter'.snap # <<>>
                      => /\ iter'.pos = 1
                         /\ Len(sent') = 1
                         /\ sent'[1].command = "ping"
                         /\ sent'[1].to = iter'.snap[1]
                /\ iter'.snap = <<>>
                      => /\ iter'.pos = 0
                         /\ sent' = <<>>
                         /\ Ev(OwnId, "error") \in Range(events')
       /\ last'.op # "start"
             => /\ iter' = iter
                /\ IsPrefix(Order(peers), Order(peers'))
      ]_vars

(* A new epoch has just begun with a faulty peer in the table: it is       *)
(* shorter than the table and its first peer has been pinged.              *)
C20_Witness ==
    /\ last.op = "start"
    /\ iter.pos = 1
    /\ iter.snap # <<>>
    /\ Len(iter.snap) < Len(peers)
    /\ iter.snap = Order(peersOnline(peers))
    /\ sent # <<>>
    /\ sent[1].to = iter.snap[1]

-----------------------------------------------------------------------------
(* The scheduler.  The application calls start(), possibly more than once, *)
(* and stop(); sends complete or fail, timers expire and acks arrive.      *)

NextSchedule ==
    \/ \E perm \in Perms, tie \in TieOrders :
          ~stopped /\ Start(perm, tie) /\ Fits(MaxGossip, MaxProbeTimers, MaxConts)
    \/ Stop /\ Fits(MaxGossip, MaxProbeTimers, MaxConts)
    \/ \E k \in 1..MaxConts, tie \in TieOrders :
          Resume(k, tie) /\ Fits(MaxGossip, MaxProbeTimers, MaxConts)
    \/ \E k \in 1..MaxConts, tie \in TieOrders :
          SendFailed(k, tie) /\ Fits(MaxGossip, MaxProbeTimers, MaxConts)
    \/ \E rnd \in PeerIds, perm \in Perms, tie \in TieOrders :
          Expire(rnd, perm, tie) /\ Fits(MaxGossip, MaxProbeTimers, MaxConts)
    \/ \E s \in PeerIds, tie \in TieOrders :
          ReceiveAck(s, <<>>, tie) /\ Fits(MaxGossip, MaxProbeTimers, MaxConts)

SpecSchedule == Init /\ [][NextSchedule]_vars

(* There is no peer to probe: the iterator is exhausted and no peer of the *)
(* table is online (the table is empty or all its peers are faulty).       *)
NoPeerToProbe ==
    /\ iter.pos >= Len(iter.snap)
    /\ peersOnline(peers) = <<>>

(* C21: when there is no peer to probe, a protocol period completes        *)
(* normally: it sends nothing, raises no error and leaves the peers, the   *)
(* local sequence and the update buffer as they were.                      *)
C21_Original ==
    [][(last'.op = "start" /\ NoPeerToProbe)
         => /\ sent' = <<>>
            /\ \A k \in 1..Len(events') : events'[k].name # "error"
            /\ Range(peers') = Range(peers)
            /\ sequence' = sequence
            /\ updates' = updates]_vars

(* A probe of the scheduler is unresolved: its PING or its PING-REQ is     *)
(* being sent, or its probe timeout or its indirect timeout is pending.    *)
ProbeUnresolved ==
    \/ \E k \in 1..Len(timers) : timers[k].kind \in {"target", "indirect"}
    \/ \E k \in 1..Len(conts) : conts[k].kind \in {"probe", "pingReq"}

(* C22: at most one probe of the scheduler is in flight: a protocol period *)
(* sends its PING only when no probe of an earlier period is unresolved.   *)
(* Stated for SpecProbe, where start() is called once.                     *)
C22_Original ==
    [][(/\ last'.op = "start"
        /\ \E k \in 1..Len(sent') : sent'[k].command = "ping")
         => ~ProbeUnresolved]_vars

(* C23: once stop() has been called no protocol period is started any      *)
(* more, whether a period was awaiting its send when stop() was called and *)
(* however often start() had been called before.  Stated for SpecSchedule, *)
(* where the application does not call start() after stop().               *)
C23_Original ==
    [][stopped => last'.op # "start"]_vars

(* The error signal of the engine is among the events of a callback.       *)
ErrorSignal(evs) == \E k \in 1..Len(evs) : evs[k] = Ev(OwnId, "error")

(* The next protocol period is scheduled: the timer armed last is the one  *)
(* this.timeout names.                                                     *)
NextPeriodArmed(ts) == ts # <<>> /\ ts[Len(ts)] = StartT

-----------------------------------------------------------------------------
(* The socket.  Datagrams arrive from senders the table holds or not: ones *)
(* that do not parse, ones with a command the engine does not know, acks,  *)
(* pings and ping-reqs.  They carry no updates, so every peer stays alive  *)
(* and the buffer stays empty; the only timers are those of relayed pings, *)
(* whose expiry draws nothing at random.                                   *)

NextSocket ==
    \/ ReceiveInvalid("fifo") /\ Fits(0, 1, MaxConts)
    \/ \E s \in Ids :
          ReceiveUnrecognized(s, <<>>, "fifo") /\ Fits(0, 1, MaxConts)
    \/ \E s \in Ids :
          ReceiveAck(s, <<>>, "fifo") /\ Fits(0, 1, MaxConts)
    \/ \E s \in Ids :
          ReceivePing(s, <<>>, "fifo") /\ Fits(0, 1, MaxConts)
    \/ \E s \in Ids, t \in Ids :
          ReceivePingReq(s, t, <<>>, "fifo") /\ Fits(0, 1, MaxConts)
    \/ \E k \in 1..MaxConts :
          Resume(k, "fifo") /\ Fits(0, 1, MaxConts)
    \/ Expire(OwnId, [k \in 1..Len(peers) |-> k], "fifo") /\ Fits(0, 1, MaxConts)

SpecSocket == Init /\ [][NextSocket]_vars

-----------------------------------------------------------------------------
(* Counts.  Updates about the engine and about one peer arrive with the    *)
(* count their sender's buffer held, handed to handleUpdate one at a time  *)
(* or carried by an ack of that peer; suspicion timers expire.             *)

SocketGossip == {v \in CountedIn : v.id \in {OwnId} \cup Subjects}

NextCount ==
    \/ \E u \in SocketGossip :
          HandleUpdate(u, "fifo") /\ Fits(MaxPending, MaxTimers, 0)
    \/ \E s \in Subjects, u \in SocketGossip :
          ReceiveAck(s, <<u>>, "fifo") /\ Fits(MaxPending, MaxTimers, 0)
    \/ \E rnd \in PeerIds, perm \in Perms :
          Expire(rnd, perm, "fifo") /\ Fits(MaxPending, MaxTimers, 0)

SpecCount == InitOf(Subjects) /\ [][NextCount]_vars

-----------------------------------------------------------------------------
(* Claims about the socket listener, stated for SpecSocket.                *)

(* C25: a datagram that fails JSON parsing produces exactly one error      *)
(* signal and is otherwise dropped: no other signal is emitted, nothing is *)
(* sent, and the peer table, the update buffer and the local sequence are  *)
(* unchanged.                                                              *)
C25_Original ==
    [][last'.op = "invalid"
         => /\ events' = <<Ev(OwnId, "error")>>
            /\ sent' = <<>>
            /\ peers' = peers
            /\ updates' = updates
            /\ sequence' = sequence]_vars

(* The record addPeer builds for a sender it learns from a datagram.       *)
Registered(id) ==
    [id |-> id, status |-> "alive", sequence |-> 0, lastFaulty |-> NeverFaulty,
     address |-> SrcAddr]

(* The datagram the last callback handled, with its command `cmd`.         *)
Handling(S, l, cmd) ==
    handleMessage(S, Msg(cmd, l.id, l.target, TgtAddr, "", l.updates),
                  SrcAddr, l.id, "fifo")

-----------------------------------------------------------------------------
(* Claims about the count of inbound updates, stated for SpecCount.        *)

(* The updates `us` with every count replaced by c.                        *)
Recount(us, c) == [k \in 1..Len(us) |-> [us[k] EXCEPT !.count = c]]

(* The callback ended as the run K of it does.                             *)
SameOutcome(K) ==
    /\ peers' = K.peers
    /\ sequence' = K.sequence
    /\ updates' = K.updates
    /\ timers' = K.timers
    /\ events' = K.events
    /\ sent' = K.sent

(* The callback left the buffer's entries alone and appended entries with  *)
(* count 0 only.                                                           *)
BufferedFresh ==
    /\ Len(updates') >= Len(updates)
    /\ SubSeq(updates', 1, Len(updates)) = updates
    /\ \A k \in (Len(updates) + 1)..Len(updates') : updates'[k].count = 0

(* C27: the count an inbound update carries never influences the receiver: *)
(* the callback that handles it, be it handleUpdate or the handler of an   *)
(* ack that carries it, ends with the same peers, sequence, buffer, timers *)
(* and events as the run that differs only in that count, whatever the     *)
(* other count is; and what it buffers starts with count 0.                *)
C27_CountIgnored ==
    [][/\ last'.op = "handleUpdate"
            => /\ \A c \in Counts :
                     SameOutcome(handleUpdate(Cur, Recount(last'.updates, c)[1], "fifo"))
               /\ BufferedFresh
       /\ (last'.op = "ack" /\ last'.updates # <<>>)
            => /\ \A c \in Counts :
                     SameOutcome(handleMessage(Cur,
                         Msg("ack", last'.id, last'.id, TgtAddr, "",
                             Recount(last'.updates, c)),
                         SrcAddr, last'.id, "fifo"))
               /\ BufferedFresh]_vars

(* An update that arrived with a count above 0 changed a peer's status,    *)
(* and the update buffered for it has count 0.                             *)
C27_Witness ==
    /\ last.op = "handleUpdate"
    /\ last.updates[1].count > 0
    /\ last.updates[1].status = "suspect"
    /\ updates # <<>>
    /\ updates[Len(updates)].id = last.id
    /\ updates[Len(updates)].status = "suspect"
    /\ updates[Len(updates)].count = 0
    /\ Known(peers, last.id)
    /\ PeerById(peers, last.id).status = "suspect"

-----------------------------------------------------------------------------
(* Claims about the timers of one peer, stated for SpecProbe.              *)

(* The pending timers of the given kinds that concern peer p.              *)
PendingOf(p, kinds) ==
    {k \in 1..Len(timers) : timers[k].peer = p /\ timers[k].kind \in kinds}

(* C28 as the spec words it: of a peer's probe timeout, indirect-probe     *)
(* timeout and suspect timeout at most one is pending at any time.         *)
C28_Original ==
    \A p \in PeerIds :
        Cardinality(PendingOf(p, {"target", "indirect", "suspect"})) <= 1

(* C28: a peer has at most one suspect timeout pending, and none while it  *)
(* is alive.  The three timers of a peer do overlap: its suspect timeout   *)
(* with its probe timeout or its indirect-probe timeout, and the indirect- *)
(* probe timeout of one probe with the probe timeout of the next.          *)
C28_OneSuspectTimeout ==
    \A p \in PeerIds :
        /\ Cardinality(PendingOf(p, {"suspect"})) <= 1
        /\ (PendingOf(p, {"suspect"}) # {} /\ Known(peers, p))
              => PeerById(peers, p).status # "alive"

(* A peer that gossip made suspect while it was being probed: its suspect  *)
(* timeout and its indirect-probe timeout are both pending.                *)
C28_Witness ==
    \E p \in PeerIds :
        /\ PendingOf(p, {"suspect"}) # {}
        /\ PendingOf(p, {"indirect"}) # {}
        /\ PeerById(peers, p).status = "suspect"

-----------------------------------------------------------------------------
(* Failure detection.  The node of one peer is stopped and started again   *)
(* any number of times; the nodes of the other peers keep running.  A      *)
(* running node answers every PING before its probe timeout expires, and   *)
(* the running node that may stop sends its own PINGs.  The engine runs    *)
(* its protocol periods: start() is called once, sends complete and timers *)
(* expire.  These callbacks gossip to nobody who is modelled, so the order *)
(* of ties in the buffer plays no part.                                    *)

(* The oldest pending timer.                                               *)
Oldest ==
    timers[CHOOSE j \in 1..Len(timers) :
              IsTimer(timers[j]) /\ \A h \in 1..(j - 1) : ~IsTimer(timers[h])]

(* A running node's ACK arrives before the probe timeout of its PING.      *)
Answered ==
    /\ \E k \in 1..Len(timers) : IsTimer(timers[k])
    /\ Oldest.kind = "target"
    /\ Oldest.peer \notin down

Awaited(p) == \E k \in 1..Len(timers) : timers[k] = TargetT(p)

DetectStart ==
    \E perm \in Perms :
       NotStarted /\ Start(perm, "fifo") /\ Fits(MaxUpdates, MaxDetectTimers, MaxConts)

DetectResume ==
    Resume(1, "fifo") /\ Fits(MaxUpdates, MaxDetectTimers, MaxConts)

DetectExpire(perm) ==
    \E rnd \in PeerIds :
       /\ perm \in Perms
       /\ ~Answered
       /\ Expire(rnd, perm, "fifo")
       /\ Fits(MaxUpdates, MaxDetectTimers, MaxConts)

DetectAck(s) ==
    /\ s \notin down
    /\ Awaited(s)
    /\ ReceiveAck(s, <<>>, "fifo")
    /\ Fits(MaxUpdates, MaxDetectTimers, MaxConts)

DetectPing(s) ==
    /\ s \notin down
    /\ ReceivePing(s, <<>>, "fifo")
    /\ Fits(MaxUpdates, MaxDetectTimers, MaxConts)

NextDetect ==
    \/ DetectStart
    \/ DetectResume
    \/ \E perm \in Permutations(1..MaxPeers) \cup Perms : DetectExpire(perm)
    \/ \E s \in PeerIds : DetectAck(s)
    \/ \E s \in Subjects : DetectPing(s)
    \/ \E p \in Subjects : NodeStops(p)
    \/ \E p \in Subjects : NodeStarts(p)

(* Fairness.  The application calls start(), and the event loop runs every *)
(* callback that is due: a send completes, the oldest timer expires, the   *)
(* ACK of a running node that was pinged arrives, and so does the PING of  *)
(* a running node that may stop.  For the last three the condition under   *)
(* which the callback is due is written out, WF_vars(A) being              *)
(* []<>~ENABLED <<A>>_vars \/ []<><<A>>_vars; the callback is told by      *)
(* `last`.  A behaviour that ends at a bound of the model is not fair.     *)
(* shufflePeers() draws at random: when epochs end again and again, the    *)
(* order of the table changes again and again.                             *)
TimerOps == {"target", "indirect", "suspect", "relay", "start"}

TimerWaits ==
    /\ ~hung
    /\ \E k \in 1..Len(timers) : IsTimer(timers[k])
    /\ ~Answered

AckWaits(s) == ~hung /\ s \notin down /\ Awaited(s)

PingWaits(s) == ~hung /\ s \notin down

EpochEnds ==
    /\ TimerWaits
    /\ Oldest.kind = "start"
    /\ iter.pos >= Len(iter.snap)

Reordered ==
    /\ last' = Last("start", OwnId, OwnId, <<>>)
    /\ \E k \in 1..Len(peers) : peers'[k].id # peers[k].id

FairDetect ==
    /\ WF_vars(DetectStart)
    /\ WF_vars(DetectResume)
    /\ ([]<>~TimerWaits \/ []<><<last'.op \in TimerOps>>_vars)
    /\ \A s \in PeerIds :
          ([]<>~AckWaits(s) \/ []<><<last' = Last("ack", s, s, <<>>)>>_vars)
    /\ \A s \in Subjects :
          ([]<>~PingWaits(s) \/ []<><<last' = Last("ping", s, s, <<>>)>>_vars)
    /\ (<>[]~EpochEnds \/ []<><<Reordered>>_vars)

(* A cluster of the engine and MaxPeers other nodes, after init(peers).    *)
InitCluster == Init /\ Len(peers) = MaxPeers

SpecDetect == InitCluster /\ [][NextDetect]_vars /\ FairDetect

(* The engine holds the peer p with the given status.                      *)
Holds(p, status) == Known(peers, p) /\ PeerById(peers, p).status = status

(* C29: whenever the node of a peer the engine knows is stopped and stays  *)
(* stopped, the engine eventually holds that peer faulty; this for every   *)
(* stop, not only the first.  Stated for SpecDetect.                       *)
C29_Original ==
    \A p \in Subjects :
        (p \in down /\ Known(peers, p)) ~> (p \notin down \/ Holds(p, "faulty"))

(* C30: when the node of a peer the engine holds faulty runs again (it     *)
(* restarted, with sequence 0 like every node that starts) and keeps       *)
(* running, the engine eventually holds the peer alive and emits its alive *)
(* event.  Stated for SpecDetect.                                          *)
C30_RestartedNodeAlive ==
    \A p \in Subjects :
        (p \notin down /\ Holds(p, "faulty"))
            ~> (p \in down \/ (Holds(p, "alive") /\ Ev(p, "alive") \in Range(events)))

(* The PING of a restarted node has made its peer, faulty until then at    *)
(* the sequence it still has, alive again.                                 *)
C30_Witness ==
    \E p \in Subjects :
        /\ p \notin down
        /\ last = Last("ping", p, p, <<>>)
        /\ Holds(p, "alive")
        /\ PeerById(peers, p).lastFaulty = PeerById(peers, p).sequence
        /\ Ev(p, "alive") \in Range(events)

-----------------------------------------------------------------------------
(* getUpdates() as the ping of a protocol period calls it: start() changes *)
(* nothing in the buffer before Peer.send builds the datagram, so the      *)
(* datagram carries what getUpdates() returned for the buffer the state    *)
(* before holds.                                                           *)

(* The place in the buffer of an entry that getUpdates() returned: the     *)
(* entry with its count as it was before the call.                         *)
PlaceOf(buf, r) ==
    CHOOSE j \in 1..Len(buf) : buf[j] = [r EXCEPT !.count = @ - 1]

Returned(buf, ret) ==
    {j \in 1..Len(buf) : \E k \in 1..Len(ret) : buf[j] = [ret[k] EXCEPT !.count = @ - 1]}

(* C31 as stated: getUpdates() returns the least-disseminated live         *)
(* entries: every returned entry had, before the call, a count less than   *)
(* or equal to that of every live entry not returned, the returned list is *)
(* in ascending order of count, and entries of equal count are returned in *)
(* the order they were inserted.  Stated for SpecFlood.                    *)
C31_Original ==
    [][(last'.op = "start" /\ sent' # <<>>)
          => LET ret == sent'[1].updates
                 lim == limit(peers)
             IN /\ \A k \in 1..Len(ret) :
                      \E j \in 1..Len(updates) :
                         /\ updates[j] = [ret[k] EXCEPT !.count = @ - 1]
                         /\ updates[j].count < lim
                /\ \A j \in Returned(updates, ret), h \in 1..Len(updates) :
                      (updates[h].count < lim /\ h \notin Returned(updates, ret))
                         => updates[j].count <= updates[h].count
                /\ \A k, m \in 1..Len(ret) :
                      k < m => /\ ret[k].count <= ret[m].count
                               /\ ret[k].count = ret[m].count
                                     => PlaceOf(updates, ret[k]) <= PlaceOf(updates, ret[m])
      ]_vars

(* The same update: two records that differ in their count at most.        *)
SameUpdate(a, b) == a = [b EXCEPT !.count = a.count]

(* C32: while the size of the table stays the same, an update is returned  *)
(* by getUpdates() at most limit times in all.  Its count is the number of *)
(* times it was returned: a call raises by one the count of each entry it  *)
(* returns and of no other, no returned entry has a count above the limit, *)
(* and an entry whose count has reached the limit when a call begins is    *)
(* dropped by that call and is not returned: it is in the buffer no more,  *)
(* out of the reach of every later call.  Stated for SpecFlood.            *)
C32_ReturnedAtMostLimitTimes ==
    [][(sent' # <<>> /\ Len(peers') = Len(peers))
          => LET ret == sent'[1].updates
                 lim == limit(peers)
             IN /\ \A k \in 1..Len(ret) :
                      /\ 1 <= ret[k].count /\ ret[k].count <= lim
                      /\ \E j \in 1..Len(updates') : updates'[j] = ret[k]
                /\ \A j \in 1..Len(updates) :
                      IF updates[j].count >= lim
                      THEN /\ \A h \in 1..Len(updates') : ~SameUpdate(updates'[h], updates[j])
                           /\ \A k \in 1..Len(ret) : ~SameUpdate(ret[k], updates[j])
                      ELSE \E h \in 1..Len(updates') :
                              /\ SameUpdate(updates'[h], updates[j])
                              /\ updates'[h].count =
                                    IF \E k \in 1..Len(ret) : SameUpdate(ret[k], updates[j])
                                    THEN updates[j].count + 1
                                    ELSE updates[j].count
      ]_vars

(* A ping has just been built from a buffer that lost an entry at the      *)
(* limit, and it carries another entry for the last time.                  *)
C32_Witness ==
    /\ last.op = "start"
    /\ sent # <<>>
    /\ Len(updates) < sequence
    /\ \E v \in Range(sent[1].updates) : v.count = limit(peers)

-----------------------------------------------------------------------------
(* C33: a peer is declared faulty at most once per sequence.  In every     *)
(* callback (an update handled, the peer heard from, a timer expired) the  *)
(* faulty event of a peer is emitted only when the sequence the peer then  *)
(* has is strictly greater than its lastFaulty before, and lastFaulty then *)
(* becomes that sequence; lastFaulty changes in no other way, so it never  *)
(* decreases and never exceeds the sequence; and faulty() called by the    *)
(* suspect timeout on a peer whose sequence is not greater than lastFaulty *)
(* changes nothing of the peer and emits nothing.  Stated for SpecUpdates. *)
C33_FaultyOncePerSequence ==
    [][\A i \in 1..Len(peers) :
          LET p == peers[i].id
              q == PeerById(peers', p)
          IN /\ Known(peers', p)
             /\ Ev(p, "faulty") \in Range(events')
                   => /\ q.sequence > peers[i].lastFaulty
                      /\ q.lastFaulty = q.sequence
                      /\ q.status = "faulty"
                      /\ peers[i].status # "faulty"
             /\ q.lastFaulty # peers[i].lastFaulty
                   => q.lastFaulty = q.sequence /\ q.sequence > peers[i].lastFaulty
             /\ q.lastFaulty <= q.sequence
             /\ (/\ last'.op = "suspect"
                 /\ last'.target = p
                 /\ peers[i].sequence <= peers[i].lastFaulty)
                   => /\ q = peers[i]
                      /\ events' = <<>>
                      /\ updates' = updates
      ]_vars

(* The suspect timeout of a peer has expired at the sequence at which the  *)
(* peer was declared faulty before: the peer is still suspect.             *)
C33_Witness ==
    \E p \in PeerIds :
        /\ last.op = "suspect"
        /\ last.target = p
        /\ Known(peers, p)
        /\ PeerById(peers, p).status = "suspect"
        /\ PeerById(peers, p).lastFaulty = PeerById(peers, p).sequence
        /\ events = <<>>
        /\ \E k \in 1..Len(updates) :
              /\ updates[k].id = p
              /\ updates[k].status = "faulty"
              /\ updates[k].sequence = PeerById(peers, p).sequence

(* C34: an update about the engine itself that is not a suspect update at  *)
(* exactly the engine's current sequence (an alive or faulty update, or a  *)
(* suspect update with a lower or a higher sequence) changes nothing: the  *)
(* sequence, the buffer and the table are as before, no timer is armed and *)
(* no event is emitted.  Stated for SpecUpdates.                           *)
C34_OtherSelfUpdatesIgnored ==
    [][(/\ last'.op = "handleUpdate"
        /\ last'.id = OwnId
        /\ ~(/\ last'.updates[1].status = "suspect"
             /\ last'.updates[1].sequence = sequence))
          => /\ sequence' = sequence
             /\ updates' = updates
             /\ peers' = peers
             /\ timers' = timers
             /\ events' = <<>>
      ]_vars

(* A suspicion of the engine at a sequence the engine has not reached was  *)
(* handled: the engine has not refuted it.                                 *)
C34_Witness ==
    /\ last.op = "handleUpdate"
    /\ last.id = OwnId
    /\ last.updates[1].status = "suspect"
    /\ last.updates[1].sequence > sequence
    /\ \A k \in 1..Len(updates) : updates[k].id # OwnId

(* What a callback appended to the buffer.                                 *)
Appended == SubSeq(updates', Len(updates) + 1, Len(updates'))

-----------------------------------------------------------------------------
(* The listener handlePingReq registered for the ack of target t on behalf *)
(* of sender x is in place.                                                *)
Relaying(ts, x, t) == \E k \in 1..Len(ts) : ts[k] = RelayT(x, t)

AcksTo(ds, x) == {k \in 1..Len(ds) : ds[k].command = "ack" /\ ds[k].to = x}

(* C36: on a ping-req from S for target T the engine sends T one PING and  *)
(* arms no probe timeout for it: no PING-REQ follows and T is not          *)
(* suspected.  When the PING's send has completed the listener for T's ack *)
(* is registered with its timeout and nothing else.  An ACK goes to a peer *)
(* X only as the answer to X's own PING, or when an ACK from T is handled  *)
(* while the listener for X is in place, and then one ACK and the listener *)
(* is gone; an ACK from T handled when no listener is in place (removed by *)
(* the timeout, or used) sends nothing.  Stated for SpecSocket.            *)
C36_RelayedPing ==
    [][/\ (last'.op = "ping-req" /\ Known(peers', last'.id) /\ Known(peers', last'.target))
             => /\ sent' = <<Datagram("ping", last'.target, last'.target, "", <<>>)>>
                /\ timers' = timers
                /\ conts' = Append(conts, Cont("handlePingReq", last'.id, last'.target, <<>>))
       /\ last'.op = "handlePingReq"
             => /\ sent' = <<>>
                /\ timers' = Append(timers, RelayT(last'.id, last'.target))
       /\ \A k \in 1..Len(sent') : sent'[k].command # "ping-req"
       /\ \A k \in 1..Len(timers') : timers'[k].kind = "relay"
       /\ \A k \in 1..Len(peers') : peers'[k].status = "alive"
       /\ \A x \in Ids :
             /\ Cardinality(AcksTo(sent', x)) <= 1
             /\ AcksTo(sent', x) # {}
                   => \/ last'.op = "ping" /\ last'.id = x
                      \/ /\ last'.op = "ack"
                         /\ Relaying(timers, x, last'.id)
                         /\ ~Relaying(timers', x, last'.id)
       /\ (last'.op = "ack" /\ \A x \in Ids : ~Relaying(timers, x, last'.id))
             => sent' = <<>>
       /\ (last'.op = "relay" /\ last'.id # last'.target)
             => \A x \in Ids : ~Relaying(timers', x, last'.target)
      ]_vars

(* The ACK of target T was handled while the listener was in place: one    *)
(* ACK has gone to the sender S of the ping-req, and the listener is gone  *)
(* while its timeout is still pending.                                     *)
C36_Witness ==
    \E x \in PeerIds :
        /\ last.op = "ack"
        /\ last.id # x
        /\ sent = <<Datagram("ack", x, x, "", <<>>)>>
        /\ timers = <<[RelayT(x, last.id) EXCEPT !.on = FALSE]>>

-----------------------------------------------------------------------------
(* C37: an alive update changes a peer's status only when the peer is      *)
(* suspect or faulty and the update's sequence is strictly greater than    *)
(* the peer's before the update, and then the peer is alive; an alive      *)
(* update with an equal or a lower sequence leaves status and sequence as  *)
(* they were; and a suspect update makes an alive peer suspect exactly     *)
(* when its sequence is greater than or equal to the peer's.  Stated for   *)
(* SpecUpdates.                                                            *)
C37_AliveAndSuspectUpdates ==
    [][\A i \in 1..Len(peers) :
          LET u == last'.updates[1]
              q == PeerById(peers', peers[i].id)
          IN /\ Handled(last', peers[i].id, "alive")
                   => /\ q.status # peers[i].status
                            <=> (peers[i].status # "alive" /\ u.sequence > peers[i].sequence)
                      /\ q.status # peers[i].status => q.status = "alive"
                      /\ u.sequence <= peers[i].sequence
                            => q.status = peers[i].status /\ q.sequence = peers[i].sequence
             /\ (Handled(last', peers[i].id, "suspect") /\ peers[i].status = "alive")
                   => (q.status = "suspect" <=> u.sequence >= peers[i].sequence)
      ]_vars

(* A suspect peer whose sequence an update had raised has just handled an  *)
(* alive update with that same sequence: it is still suspect.              *)
C37_Witness ==
    \E p \in PeerIds :
        /\ Handled(last, p, "alive")
        /\ Known(peers, p)
        /\ PeerById(peers, p).status = "suspect"
        /\ PeerById(peers, p).sequence = 1
        /\ last.updates[1].sequence = 1
        /\ events = <<>>

(* The peer an alive update about an unknown id registers.                 *)
Bootstrapped(u) ==
    [id |-> u.id, status |-> "alive", sequence |-> u.sequence,
     lastFaulty |-> NeverFaulty, address |-> u.address]

(* C38: an update about an id that is neither the own id nor in the table  *)
(* registers a new peer only when its status is alive: the peer is         *)
(* appended to the table with the update's endpoint and sequence, alive;   *)
(* a suspect or faulty update about an unknown id leaves the table as it   *)
(* was.  Either way the buffer is unchanged, no timer is armed and no      *)
(* event is emitted.  Stated for SpecUpdates.                              *)
C38_UnknownIdRegisteredWhenAlive ==
    [][(/\ last'.op = "handleUpdate"
        /\ last'.id # OwnId
        /\ ~Known(peers, last'.id))
          => /\ peers' = IF last'.updates[1].status = "alive"
                         THEN Append(peers, Bootstrapped(last'.updates[1]))
                         ELSE peers
             /\ updates' = updates
             /\ timers' = timers
             /\ events' = <<>>
      ]_vars

(* An alive update with sequence 1 about an unknown id was handled: the    *)
(* table ends with the new peer at sequence 1 and the update's endpoint.   *)
C38_Witness ==
    /\ last.op = "handleUpdate"
    /\ last.updates[1].status = "alive"
    /\ last.updates[1].sequence = 1
    /\ peers # <<>>
    /\ peers[Len(peers)] = Bootstrapped(last.updates[1])
    /\ peers[Len(peers)].address = UpdAddr
    /\ updates = <<>>
    /\ events = <<>>

-----------------------------------------------------------------------------
(* The suspect timeouts of peer p among the timers ts.                     *)
SuspectTimeouts(ts, p) == {k \in 1..Len(ts) : ts[k] = SuspectT(p)}

(* C39: for every peer at most one suspect timeout is pending at any time, *)
(* and none while the peer is alive.  A suspect timeout is armed only by   *)
(* a callback that takes the peer from alive to suspect; every callback    *)
(* that takes the peer to alive, from suspect or from faulty, leaves none  *)
(* pending; and the suspect timeout that expires finds a peer that is not  *)
(* alive, so the timer of an earlier suspicion never makes an alive peer   *)
(* faulty.  Stated for SpecUpdates.                                        *)
C39_SuspectTimeoutOfOneSuspicion ==
    [][\A i \in 1..Len(peers) :
          LET p == peers[i].id
              q == PeerById(peers', p)
          IN /\ Cardinality(SuspectTimeouts(timers', p)) <= 1
             /\ q.status = "alive" => SuspectTimeouts(timers', p) = {}
             /\ Cardinality(SuspectTimeouts(timers', p))
                    > Cardinality(SuspectTimeouts(timers, p))
                   => peers[i].status = "alive" /\ q.status = "suspect"
             /\ (peers[i].status # "alive" /\ q.status = "alive")
                   => SuspectTimeouts(timers', p) = {}
             /\ (last'.op = "suspect" /\ last'.target = p)
                   => /\ peers[i].status # "alive"
                      /\ q.status # "alive"
                      /\ SuspectTimeouts(timers', p) = {}
      ]_vars

(* A peer suspected, heard from and suspected again: the timeout of the    *)
(* second suspicion is the only one pending.                               *)
C39_Witness ==
    \E p \in PeerIds :
        /\ Known(peers, p)
        /\ PeerById(peers, p).status = "suspect"
        /\ Cardinality(SuspectTimeouts(timers, p)) = 1
        /\ Len(updates) = 3
        /\ updates[1].id = p /\ updates[1].status = "suspect"
        /\ updates[2].id = p /\ updates[2].status = "alive"
        /\ updates[3].id = p /\ updates[3].status = "suspect"

-----------------------------------------------------------------------------
(* The peers of table ps that are not faulty and are not t.                *)
OthersOnline(ps, t) ==
    {ps[k].id : k \in {j \in 1..Len(ps) : ps[j].status # "faulty" /\ ps[j].id # t}}

(* C40: when the probe timeout of T expires, the choice of the indirect    *)
(* peer returns exactly when the table holds a peer other than T that is   *)
(* not faulty, and it returns such a peer: one PING-REQ for T goes to it.  *)
(* When T is the only peer, or every other peer is faulty, the choice      *)
(* never returns: the callback never ends, no PING-REQ is sent, nothing    *)
(* else changes, and no callback runs afterwards, so T is not suspected by *)
(* that probe.  Stated for SpecProbe.                                      *)
C40_IndirectPeerChoice ==
    [][/\ ~hung
       /\ last'.op = "target"
             => LET t == last'.target
                IN IF OthersOnline(peers, t) # {}
                   THEN /\ ~hung'
                        /\ Len(sent') = 1
                        /\ sent'[1].command = "ping-req"
                        /\ sent'[1].target = t
                        /\ sent'[1].to \in OthersOnline(peers, t)
                        /\ conts' = Append(conts, Cont("pingReq", sent'[1].to, t, <<>>))
                        /\ peers' = peers
                   ELSE /\ hung'
                        /\ sent' = <<>>
                        /\ conts' = conts
                        /\ peers' = peers
                        /\ updates' = updates
                        /\ \A k \in 1..Len(timers') : timers'[k].kind # "indirect"
      ]_vars

(* The probe timeout of T expired while the only other peer was faulty:    *)
(* the engine is stuck and T is still alive.                               *)
C40_Witness ==
    /\ hung
    /\ last.op = "target"
    /\ Len(peers) = 2
    /\ PeerById(peers, last.target).status = "alive"
    /\ \E k \in 1..Len(peers) : peers[k].id # last.target /\ peers[k].status = "faulty"
    /\ sent = <<>>

=============================================================================
